---- MODULE Spec2Model ----
(***************************************************************************)
(* A model of the DatePicker control of fluent-controls                    *)
(* (packages/fluent-controls/src/components/DateTime/DatePicker.tsx).      *)
(*                                                                         *)
(* Text is a sequence of one-character strings.  A date (MethodDate) is a  *)
(* record of calendar fields in the time zone mode of the control, with    *)
(* the month counted from 0 as the JavaScript Date does; InvalidDate is    *)
(* the Date whose time value is NaN; null is the absent value.             *)
(***************************************************************************)
EXTENDS Integers, Sequences, FiniteSets, TLC

\* Values of several JavaScript types are records tagged by k
null == [k |-> "null"]
InvalidDate == [k |-> "Invalid Date"]
undefined == "undefined"

MMDDYYYY == "MM/DD/YYYY"
DDMMYYYY == "DD/MM/YYYY"
YYYYMMDD == "YYYY/MM/DD"
Formats == {MMDDYYYY, DDMMYYYY, YYYYMMDD}

(***************************************************************************)
(* JavaScript string primitives                                            *)
(***************************************************************************)
DigitChars == <<"0", "1", "2", "3", "4", "5", "6", "7", "8", "9">>

IsDigit(c) == \E i \in 1..10 : DigitChars[i] = c

DigitVal(c) == (CHOOSE i \in 1..10 : DigitChars[i] = c) - 1

\* s[i] with i counted from 0; undefined outside the string
CharAt(s, i) == IF i >= 0 /\ i < Len(s) THEN s[i + 1] ELSE undefined

\* s.substr(0, n): a negative n gives the empty string
substr0(s, n) ==
    IF n <= 0 THEN <<>> ELSE IF n >= Len(s) THEN s ELSE SubSeq(s, 1, n)

\* s.slice(0, n) for n >= 0
slice0(s, n) == substr0(s, n)

\* s.split('/')
RECURSIVE SplitFrom(_, _, _)
SplitFrom(s, i, cur) ==
    IF i > Len(s) THEN <<cur>>
    ELSE IF s[i] = "/" THEN <<cur>> \o SplitFrom(s, i + 1, <<>>)
    ELSE SplitFrom(s, i + 1, Append(cur, s[i]))

split(s) == SplitFrom(s, 1, <<>>)

\* Numbers beyond the range of a Date all behave alike; they are kept at
\* Huge so that the arithmetic stays inside 32-bit integers.
Huge == 1000000

\* the number NaN: no integer that parseInt can give
NaN == 0 - 2 * Huge

RECURSIVE DigitsValue(_, _, _)
DigitsValue(s, i, acc) ==
    IF i > Len(s) \/ ~IsDigit(s[i]) THEN acc
    ELSE LET n == acc * 10 + DigitVal(s[i])
         IN  DigitsValue(s, i + 1, IF n > Huge THEN Huge ELSE n)

RECURSIVE SkipBlanks(_, _)
SkipBlanks(s, i) == IF i <= Len(s) /\ s[i] = " " THEN SkipBlanks(s, i + 1) ELSE i

\* parseInt(s): blanks, an optional sign, then the longest run of digits;
\* NaN when there is no digit there
parseInt(s) ==
    LET b == SkipBlanks(s, 1)
        neg == b <= Len(s) /\ s[b] = "-"
        d == IF b <= Len(s) /\ s[b] \in {"-", "+"} THEN b + 1 ELSE b
    IN  IF d > Len(s) \/ ~IsDigit(s[d]) THEN NaN
        ELSE IF neg THEN 0 - DigitsValue(s, d, 0) ELSE DigitsValue(s, d, 0)

isNaN(x) == x = NaN

RECURSIVE NatDigits(_)
NatDigits(n) ==
    IF n < 10 THEN <<DigitChars[n + 1]>>
    ELSE Append(NatDigits(n \div 10), DigitChars[(n % 10) + 1])

\* n.toString() of an integer
toString(n) == IF n < 0 THEN <<"-">> \o NatDigits(0 - n) ELSE NatDigits(n)

(***************************************************************************)
(* Dates: the JavaScript Date behind MethodDate                            *)
(***************************************************************************)
IsLeapYear(y) == (y % 4 = 0 /\ y % 100 # 0) \/ y % 400 = 0

\* days of month m0 (0 = January) of year y
DaysInMonth(y, m0) ==
    IF m0 = 1 THEN (IF IsLeapYear(y) THEN 29 ELSE 28)
    ELSE IF m0 \in {3, 5, 8, 10} THEN 30 ELSE 31

\* the last year a Date can hold: its time value ends on 13 September 275760
MaxDateYear == 275760

\* hours by which UTC is ahead of the local time zone of the browser
LocalOffsetHours == 8

mkDate(y, m0, d, h, mi, s) ==
    [k |-> "date", year |-> y, month |-> m0, date |-> d,
     hours |-> h, minutes |-> mi, seconds |-> s]

NextDay(dt) ==
    IF dt.date < DaysInMonth(dt.year, dt.month) THEN [dt EXCEPT !.date = dt.date + 1]
    ELSE IF dt.month < 11 THEN [dt EXCEPT !.date = 1, !.month = dt.month + 1]
    ELSE [dt EXCEPT !.date = 1, !.month = 0, !.year = dt.year + 1]

\* the UTC fields of a date kept in the mode `local`
UTCFields(local, dt) ==
    IF ~local THEN dt
    ELSE IF dt.hours + LocalOffsetHours >= 24
         THEN [NextDay(dt) EXCEPT !.hours = dt.hours + LocalOffsetHours - 24]
         ELSE [dt EXCEPT !.hours = dt.hours + LocalOffsetHours]

\* the time value of a Date is limited: beyond it the Date is invalid
InDateRange(local, dt) ==
    LET u == UTCFields(local, dt)
    IN  \/ u.year < MaxDateYear
        \/ /\ u.year = MaxDateYear
           /\ \/ u.month < 8
              \/ u.month = 8 /\ u.date < 13
              \/ u.month = 8 /\ u.date = 13 /\ u.hours = 0 /\ u.minutes = 0 /\ u.seconds = 0

\* new MethodDate(local, year, month, date, hours, minutes, seconds): the Date
\* constructor (Date.UTC in the fixed-offset mode) reads a year 0..99 as
\* 1900 + year and carries a day past the end of the month into the next month
NewMethodDate(local, y, m0, d, h, mi, s) ==
    LET yy == IF y >= 0 /\ y <= 99 THEN 1900 + y ELSE y
        dim == DaysInMonth(yy, m0)
        dt == IF d <= dim THEN mkDate(yy, m0, d, h, mi, s)
              ELSE IF m0 < 11 THEN mkDate(yy, m0 + 1, d - dim, h, mi, s)
              ELSE mkDate(yy + 1, 0, d - dim, h, mi, s)
    IN  IF InDateRange(local, dt) THEN dt ELSE InvalidDate

\* dateObject.setFullYear / setUTCFullYear (year, month, date): no century is assumed
setFullYear(dt, y, m0, d) == [dt EXCEPT !.year = y, !.month = m0, !.date = d]

\* new MethodDate(local): the current time
Today == mkDate(2024, 5, 15, 17, 30, 45)

\* dateObject.toUTCString()
toUTCString(local, dt) ==
    IF dt = InvalidDate THEN InvalidDate
    ELSE [UTCFields(local, dt) EXCEPT !.k = "UTC string"]

\* dateIsValid(dateObject, local)
dateIsValid(dt, local) == dt # InvalidDate

\* MethodDate.fromDate(local, date)
fromDate(local, dt) == dt

pad2(n) == IF n < 10 THEN <<"0">> \o toString(n) ELSE toString(n)

\* formatDate(date, format, local): two digits for the month and the day
formatDate(dt, format, local) ==
    IF dt = InvalidDate
    THEN <<"N", "a", "N", "/", "N", "a", "N", "/", "N", "a", "N">>
    ELSE LET mm == pad2(dt.month + 1)
             dd == pad2(dt.date)
             yyyy == toString(dt.year)
         IN  IF format = DDMMYYYY THEN dd \o <<"/">> \o mm \o <<"/">> \o yyyy
             ELSE IF format = MMDDYYYY THEN mm \o <<"/">> \o dd \o <<"/">> \o yyyy
             ELSE yyyy \o <<"/">> \o mm \o <<"/">> \o dd

\* replaceAt(value, index, text): puts text in front of the character at index
replaceAt(s, index, text) == substr0(s, index) \o text \o SubSeq(s, index + 1, Len(s))

\* Texts that the free-form date parser (MethodDate.fromString) is given in
\* this model.  It recognises the written-out date, long (TextMarch3) and
\* short (TextMar3); the other texts are no date for it.
TextMarch3 == <<"M", "a", "r", "c", "h", " ", "3", ",", " ", "2", "0", "2", "4">>
TextApril30 == <<"0", "4", "/", "3", "0", "/", "2", "0", "2", "4">>
TextNotADate == <<"n", "o", "t", " ", "a", " ", "d", "a", "t", "e", " ", "!", "!">>

TextMar3 == <<"3", " ", "M", "a", "r", " ", "2", "0", "2", "4">>

fromString(local, s) ==
    IF s = TextMarch3 \/ s = TextMar3 THEN mkDate(2024, 2, 3, 0, 0, 0) ELSE null

(***************************************************************************)
(* The state of a DatePicker                                               *)
(***************************************************************************)
VARIABLES
    value,          \* state.value: the text of the input (InputBuffer)
    dateValue,      \* state.dateValue: a date, or null (ParsedDate)
    initialValue,   \* state.initialValue: the reference date
    visible,        \* state.visible: the dropdown is shown
    invalid,        \* state.invalid
    error,          \* state.error
    paste,          \* this.paste: FALSE/TRUE/null or a UTC string (PasteMarker)
    seed,           \* props.initialValue
    format,         \* props.format
    localTimezone,  \* props.localTimezone
    hasOnPaste,     \* props.onPaste is supplied
    notes,          \* the calls of props.onChange / props.onPaste made by the last event
    last,           \* the last event: its kind and what it found
    probe,          \* a text given to parse on its own, and what parse made of it
    listeners,      \* the event listeners of the window
    lifecycle       \* of every component instance: new, mounted or unmounted

vars == <<value, dateValue, initialValue, visible, invalid, error, paste,
          seed, format, localTimezone, hasOnPaste, notes, last, probe,
          listeners, lifecycle>>

\* what no event of the control changes but new props, mounting and unmounting
props == <<seed, format, localTimezone, hasOnPaste, probe, listeners, lifecycle>>

(***************************************************************************)
(* The window and the components that listen to it                         *)
(***************************************************************************)
\* the instances of each class
MaxInstances == 2

DatePickerClass == "DatePicker"
ComboInputClass == "ComboInput"

Instances ==
    {[class |-> c, id |-> n] : c \in {DatePickerClass, ComboInputClass},
                               n \in 1..MaxInstances}

\* the DatePicker whose state the variables above hold
TheControl == [class |-> DatePickerClass, id |-> 1]

\* the events a class listens to: DatePicker lines 212-213, ComboInput line 204
EventTypes(class) ==
    IF class = DatePickerClass THEN {"click", "focusin"} ELSE {"click"}

\* this.handleDropdown.bind(this): a new function object at every call; an
\* instance is mounted once, so the instance and the event tell them apart
BoundHandler(inst, type) == [k |-> "bound", of |-> inst, type |-> type]

\* this.handleDropdown: the method of the class
MethodHandler(class) == [k |-> "method", class |-> class]

\* window.addEventListener(type, fn) for every event of the class
componentDidMount(inst, ls) ==
    ls \cup {[type |-> t, fn |-> BoundHandler(inst, t)] : t \in EventTypes(inst.class)}

\* window.removeEventListener(type, fn): removes the listener that is this
\* very function, if there is one
componentWillUnmount(inst, ls) ==
    ls \ {[type |-> t, fn |-> MethodHandler(inst.class)] : t \in EventTypes(inst.class)}

\* the control of the variables is mounted, alone
ControlIsMounted ==
    /\ lifecycle = [i \in Instances |-> IF i = TheControl THEN "mounted" ELSE "new"]
    /\ listeners = componentDidMount(TheControl, {})

\* the values of this.paste
pasteFalse == [k |-> "false"]
pasteTrue == [k |-> "true"]

truthy(p) == p.k \in {"true", "UTC string", "Invalid Date"}

isString(p) == p.k \in {"UTC string", "Invalid Date"}

\* the literal 'invalid' given to onChange
InvalidText == [k |-> "invalid"]

\* JavaScript comparisons: false when a side is NaN
lt(a, b) == a # NaN /\ b # NaN /\ a < b

gt(a, b) == a # NaN /\ b # NaN /\ a > b

(***************************************************************************)
(* The segment formatter                                                   *)
(***************************************************************************)
\* handleMonth with the threshold of handleDay for the first digit
handleMonth_dayThreshold(newValue, position, stateValue) ==
    LET n == Len(newValue)
        lastNum == parseInt(<<CharAt(newValue, n - 1)>>)
        suffix == IF position < 3 THEN <<"/">> ELSE <<>>
    IN  IF n = 1 \/ CharAt(newValue, n - 2) = "/"
        THEN IF gt(lastNum, 3)
             THEN (IF position > 1
                   THEN replaceAt(newValue, n - 1, <<"0">>)
                   ELSE <<"0">> \o toString(lastNum)) \o suffix
             ELSE newValue
        ELSE LET otherLastNum == parseInt(<<CharAt(newValue, n - 2)>>)
             IN  IF lt(otherLastNum, 1) THEN newValue \o suffix
                 ELSE IF lt(lastNum, 3) THEN newValue \o suffix
                 ELSE stateValue

\* handleMonth that takes every second digit
handleMonth_anySecondDigit(newValue, position, stateValue) ==
    LET n == Len(newValue)
        lastNum == parseInt(<<CharAt(newValue, n - 1)>>)
        suffix == IF position < 3 THEN <<"/">> ELSE <<>>
    IN  IF n = 1 \/ CharAt(newValue, n - 2) = "/"
        THEN IF gt(lastNum, 1)
             THEN (IF position > 1
                   THEN replaceAt(newValue, n - 1, <<"0">>)
                   ELSE <<"0">> \o toString(lastNum)) \o suffix
             ELSE newValue
        ELSE newValue \o suffix

handleMonth(newValue, position, stateValue) ==
    LET n == Len(newValue)
        lastNum == parseInt(<<CharAt(newValue, n - 1)>>)
        suffix == IF position < 3 THEN <<"/">> ELSE <<>>
    IN  IF n = 1 \/ CharAt(newValue, n - 2) = "/"
        THEN IF gt(lastNum, 1)
             THEN (IF position > 1
                   THEN replaceAt(newValue, n - 1, <<"0">>)
                   ELSE <<"0">> \o toString(lastNum)) \o suffix
             ELSE newValue
        ELSE LET otherLastNum == parseInt(<<CharAt(newValue, n - 2)>>)
             IN  IF lt(otherLastNum, 1) THEN newValue \o suffix
                 ELSE IF lt(lastNum, 3) THEN newValue \o suffix
                 ELSE stateValue

\* handleDay that appends the separator after the last segment as well
handleDay_alwaysSeparator(newValue, position, stateValue) ==
    LET n == Len(newValue)
        lastNum == parseInt(<<CharAt(newValue, n - 1)>>)
        suffix == <<"/">>
    IN  IF n = 1 \/ CharAt(newValue, n - 2) = "/"
        THEN IF gt(lastNum, 3)
             THEN (IF position > 1
                   THEN replaceAt(newValue, n - 1, <<"0">>)
                   ELSE <<"0">> \o toString(lastNum)) \o suffix
             ELSE newValue
        ELSE LET otherLastNum == parseInt(<<CharAt(newValue, n - 2)>>)
             IN  IF lt(otherLastNum, 3) THEN newValue \o suffix
                 ELSE IF lt(lastNum, 2) THEN newValue \o suffix
                 ELSE stateValue

handleDay(newValue, position, stateValue) ==
    LET n == Len(newValue)
        lastNum == parseInt(<<CharAt(newValue, n - 1)>>)
        suffix == IF position < 3 THEN <<"/">> ELSE <<>>
    IN  IF n = 1 \/ CharAt(newValue, n - 2) = "/"
        THEN IF gt(lastNum, 3)
             THEN (IF position > 1
                   THEN replaceAt(newValue, n - 1, <<"0">>)
                   ELSE <<"0">> \o toString(lastNum)) \o suffix
             ELSE newValue
        ELSE LET otherLastNum == parseInt(<<CharAt(newValue, n - 2)>>)
             IN  IF lt(otherLastNum, 3) THEN newValue \o suffix
                 ELSE IF lt(lastNum, 2) THEN newValue \o suffix
                 ELSE stateValue

handleTyping(newValue, fmt, stateValue) ==
    LET n == Len(newValue)
    IN  IF fmt = YYYYMMDD
        THEN IF n = 4 THEN newValue \o <<"/">>
             ELSE IF n = 6 \/ n = 7 THEN handleMonth(newValue, 2, stateValue)
             ELSE IF n = 9 THEN handleDay(newValue, 3, stateValue)
             ELSE IF n > 10 THEN slice0(newValue, 10)
             ELSE newValue
        ELSE IF fmt = MMDDYYYY
        THEN IF n = 1 \/ n = 2 THEN handleMonth(newValue, 1, stateValue)
             ELSE IF n = 4 \/ n = 5 THEN handleDay(newValue, 2, stateValue)
             ELSE IF n > 10 THEN slice0(newValue, 10)
             ELSE newValue
        ELSE IF fmt = DDMMYYYY
        THEN IF n = 1 \/ n = 2 THEN handleDay(newValue, 1, stateValue)
             ELSE IF n = 4 \/ n = 5 THEN handleMonth(newValue, 2, stateValue)
             ELSE IF n > 10 THEN slice0(newValue, 10)
             ELSE newValue
        ELSE newValue

\* handleDeletion that leaves the text of the input as it is
handleDeletion_keepsDigit(newValue, stateValue) == newValue

handleDeletion(newValue, stateValue) ==
    IF CharAt(stateValue, Len(stateValue) - 1) = "/"
    THEN substr0(newValue, Len(newValue) - 1)
    ELSE newValue

(***************************************************************************)
(* The full-string parser                                                  *)
(***************************************************************************)
\* split.push('-1') while split.length < 3
PadSplit(sp) ==
    IF Len(sp) = 1 THEN sp \o <<<<"-", "1">>, <<"-", "1">>>>
    ELSE IF Len(sp) = 2 THEN Append(sp, <<"-", "1">>)
    ELSE sp

\* parseParts that stops at the checks of the ranges (lines 437-445)
parseParts_rangesOnly(valid0, sp, fmt, local, stateInitialValue) ==
    LET year == IF fmt = YYYYMMDD THEN parseInt(sp[1]) ELSE parseInt(sp[3])
        month == IF fmt = MMDDYYYY THEN parseInt(sp[1]) ELSE parseInt(sp[2])
        date == IF fmt = DDMMYYYY THEN parseInt(sp[1])
                ELSE IF fmt = MMDDYYYY THEN parseInt(sp[2])
                ELSE parseInt(sp[3])
        valid == /\ valid0
                 /\ ~(isNaN(year) \/ year < 1)
                 /\ ~(isNaN(month) \/ month < 1 \/ month > 12)
                 /\ ~(isNaN(date) \/ date < 1 \/ date > 31)
    IN  [year |-> year, month |-> month, date |-> date, valid |-> valid]

\* lines 418-458 of parse: valid0 is the flag and sp the split after the padding
parseParts(valid0, sp, fmt, local, stateInitialValue) ==
    LET year == IF fmt = YYYYMMDD THEN parseInt(sp[1]) ELSE parseInt(sp[3])
        month == IF fmt = MMDDYYYY THEN parseInt(sp[1]) ELSE parseInt(sp[2])
        date == IF fmt = DDMMYYYY THEN parseInt(sp[1])
                ELSE IF fmt = MMDDYYYY THEN parseInt(sp[2])
                ELSE parseInt(sp[3])
        valid1 == /\ valid0
                  /\ ~(isNaN(year) \/ year < 1)
                  /\ ~(isNaN(month) \/ month < 1 \/ month > 12)
                  /\ ~(isNaN(date) \/ date < 1 \/ date > 31)
        hasVal == stateInitialValue # null
        parsed == NewMethodDate(local, year, month - 1, date,
                      IF hasVal THEN stateInitialValue.hours ELSE 0,
                      IF hasVal THEN stateInitialValue.minutes ELSE 0,
                      IF hasVal THEN stateInitialValue.seconds ELSE 0)
        valid == /\ valid1
                 /\ parsed # InvalidDate
                 /\ ~(month # parsed.month + 1 \/ date # parsed.date)
    IN  [year |-> year, month |-> month, date |-> date, valid |-> valid]

\* lines 410-416 of parse
parseSplit(split0, fmt, local, stateInitialValue) ==
    parseParts(Len(split0) = 3, PadSplit(split0), fmt, local, stateInitialValue)

parse(newValue, fmt, local, stateInitialValue) ==
    parseSplit(split(newValue), fmt, local, stateInitialValue)

(***************************************************************************)
(* The initial-state resolver                                              *)
(***************************************************************************)
SeedNone == [k |-> "undefined"]

SeedString(text) == [k |-> "string", s |-> text]

SeedDate(dt) == [k |-> "Date", d |-> dt]

\* getInitialState without the fallback to the current time
getInitialState_noFallback(sd, fmt, local) ==
    LET isStr == sd.k = "string" /\ Len(sd.s) > 0
        isDate == sd.k = "Date"
        date == IF isStr THEN fromString(local, sd.s) ELSE null
        strOk == isStr /\ date # null /\ dateIsValid(date, local)
        dateOk == isDate /\ dateIsValid(sd.d, local)
        value0 == IF strOk THEN formatDate(date, fmt, local)
                  ELSE IF isStr THEN sd.s
                  ELSE IF isDate THEN formatDate(sd.d, fmt, local)
                  ELSE <<>>
        invalid0 == (isStr /\ ~strOk) \/ (isDate /\ ~dateOk)
        initialValue0 == IF strOk THEN date
                         ELSE IF dateOk THEN fromDate(local, sd.d)
                         ELSE null
    IN  [value |-> value0,
         invalid |-> invalid0,
         initialValue |-> initialValue0,
         dateValue |-> initialValue0]

\* a Date object: two objects with the same time are not the same object
DateObject(dt, id) == [k |-> "Date", d |-> dt, id |-> id]

\* getInitialState that takes the empty string for a string that is no date
getInitialState_emptyIsText(sd, fmt, local) ==
    LET isStr == sd.k = "string"
        isDate == sd.k = "Date"
        date == IF isStr THEN fromString(local, sd.s) ELSE null
        strOk == isStr /\ date # null /\ dateIsValid(date, local)
        dateOk == isDate /\ dateIsValid(sd.d, local)
        value0 == IF strOk THEN formatDate(date, fmt, local)
                  ELSE IF isStr THEN sd.s
                  ELSE IF isDate THEN formatDate(sd.d, fmt, local)
                  ELSE <<>>
        invalid0 == (isStr /\ ~strOk) \/ (isDate /\ ~dateOk)
        initialValue0 == IF strOk THEN date
                         ELSE IF dateOk THEN fromDate(local, sd.d)
                         ELSE null
        noRef == initialValue0 = null \/ toUTCString(local, initialValue0) = InvalidDate
    IN  [value |-> value0,
         invalid |-> invalid0,
         initialValue |-> IF noRef THEN Today ELSE initialValue0,
         dateValue |-> IF noRef THEN null ELSE initialValue0]

getInitialState(sd, fmt, local) ==
    LET isStr == sd.k = "string" /\ Len(sd.s) > 0
        isDate == sd.k = "Date"
        date == IF isStr THEN fromString(local, sd.s) ELSE null
        strOk == isStr /\ date # null /\ dateIsValid(date, local)
        dateOk == isDate /\ dateIsValid(sd.d, local)
        value0 == IF strOk THEN formatDate(date, fmt, local)
                  ELSE IF isStr THEN sd.s
                  ELSE IF isDate THEN formatDate(sd.d, fmt, local)
                  ELSE <<>>
        invalid0 == (isStr /\ ~strOk) \/ (isDate /\ ~dateOk)
        initialValue0 == IF strOk THEN date
                         ELSE IF dateOk THEN fromDate(local, sd.d)
                         ELSE null
        noRef == initialValue0 = null \/ toUTCString(local, initialValue0) = InvalidDate
    IN  [value |-> value0,
         invalid |-> invalid0,
         initialValue |-> IF noRef THEN Today ELSE initialValue0,
         dateValue |-> IF noRef THEN null ELSE initialValue0]

(***************************************************************************)
(* The edit-event classifier                                               *)
(***************************************************************************)
\* makeDateValue without the correction of a year below 100
makeDateValue_noYearFix(result, local, ref) ==
    NewMethodDate(local, result.year, result.month - 1, result.date,
                  ref.hours, ref.minutes, ref.seconds)

\* makeDateValue that takes the month of the text for the month of the date
makeDateValue_monthOfText(result, local, ref) ==
    LET dv == NewMethodDate(local, result.year, result.month, result.date,
                            ref.hours, ref.minutes, ref.seconds)
    IN  IF result.year < 100
        THEN setFullYear(dv, result.year, result.month, result.date)
        ELSE dv

\* lines 557-576: the date of a parse result, with the time of the reference date
makeDateValue(result, local, ref) ==
    LET dv == NewMethodDate(local, result.year, result.month - 1, result.date,
                            ref.hours, ref.minutes, ref.seconds)
    IN  IF result.year < 100
        THEN setFullYear(dv, result.year, result.month - 1, result.date)
        ELSE dv

\* classify with a failed paste that leaves the flag as it was
classify_pasteKeepsFlag(raw, st) ==
    LET sv == st.value
        base == [newValue |-> raw, invalid |-> st.invalid,
                 initialValue |-> st.initialValue, dateValue |-> st.dateValue,
                 paste |-> st.paste]
    IN  IF truthy(st.paste)
        THEN LET date == fromString(st.localTimezone, raw)
             IN  IF date # null
                 THEN [newValue |-> formatDate(date, st.format, st.localTimezone),
                       invalid |-> FALSE, initialValue |-> date, dateValue |-> date,
                       paste |-> toUTCString(st.localTimezone, date)]
                 ELSE [base EXCEPT !.dateValue = null, !.paste = null]
        ELSE IF Len(raw) <= 10 /\ Len(raw) > Len(sv) /\ ~st.invalid
             THEN [base EXCEPT !.newValue = handleTyping(raw, st.format, sv)]
             ELSE base

\* classify that lets a long text into the buffer when the flag is not set
classify_noLengthCap(raw, st) ==
    LET sv == st.value
        base == [newValue |-> raw, invalid |-> st.invalid,
                 initialValue |-> st.initialValue, dateValue |-> st.dateValue,
                 paste |-> st.paste]
    IN  IF truthy(st.paste)
        THEN LET date == fromString(st.localTimezone, raw)
             IN  IF date # null
                 THEN [newValue |-> formatDate(date, st.format, st.localTimezone),
                       invalid |-> FALSE, initialValue |-> date, dateValue |-> date,
                       paste |-> toUTCString(st.localTimezone, date)]
                 ELSE [base EXCEPT !.invalid = TRUE, !.dateValue = null, !.paste = null]
        ELSE IF Len(sv) >= Len(raw)
        THEN IF Len(sv) - Len(raw) = 1
             THEN IF CharAt(raw, Len(raw) - 1) # CharAt(sv, Len(sv) - 1)
                  THEN LET nv == handleDeletion(raw, sv)
                       IN  [base EXCEPT
                              !.newValue = nv,
                              !.invalid =
                                  IF Len(nv) <= 10
                                  THEN ~parse(nv, st.format, st.localTimezone,
                                              st.initialValue).valid
                                  ELSE TRUE]
                  ELSE [base EXCEPT !.invalid = TRUE]
             ELSE IF Len(raw) = 0 THEN [base EXCEPT !.invalid = TRUE] ELSE base
        ELSE IF Len(raw) <= 10
             THEN LET oldSlice == substr0(sv, Len(sv) - 1)
                      newSlice == substr0(raw, Len(raw) - 2)
                  IN  IF Len(raw) > 1 /\ newSlice # oldSlice
                      THEN [base EXCEPT !.invalid = TRUE]
                      ELSE IF ~st.invalid
                      THEN [base EXCEPT !.newValue = handleTyping(raw, st.format, sv)]
                      ELSE base
             ELSE base

\* classify that leaves this.paste set when the pasted text is no date
classify_markerStays(raw, st) ==
    LET sv == st.value
        base == [newValue |-> raw, invalid |-> st.invalid,
                 initialValue |-> st.initialValue, dateValue |-> st.dateValue,
                 paste |-> st.paste]
    IN  IF truthy(st.paste)
        THEN LET date == fromString(st.localTimezone, raw)
             IN  IF date # null
                 THEN [newValue |-> formatDate(date, st.format, st.localTimezone),
                       invalid |-> FALSE, initialValue |-> date, dateValue |-> date,
                       paste |-> toUTCString(st.localTimezone, date)]
                 ELSE [base EXCEPT !.invalid = TRUE, !.dateValue = null]
        ELSE IF Len(sv) >= Len(raw)
        THEN IF Len(sv) - Len(raw) = 1
             THEN IF CharAt(raw, Len(raw) - 1) # CharAt(sv, Len(sv) - 1)
                  THEN LET nv == handleDeletion(raw, sv)
                       IN  [base EXCEPT
                              !.newValue = nv,
                              !.invalid =
                                  IF Len(nv) <= 10
                                  THEN ~parse(nv, st.format, st.localTimezone,
                                              st.initialValue).valid
                                  ELSE TRUE]
                  ELSE [base EXCEPT !.invalid = TRUE]
             ELSE IF Len(raw) = 0 THEN [base EXCEPT !.invalid = TRUE] ELSE base
        ELSE IF Len(raw) <= 10
             THEN LET oldSlice == substr0(sv, Len(sv) - 1)
                      newSlice == substr0(raw, Len(raw) - 2)
                  IN  IF Len(raw) > 1 /\ newSlice # oldSlice
                      THEN [base EXCEPT !.invalid = TRUE]
                      ELSE IF ~st.invalid
                      THEN [base EXCEPT !.newValue = handleTyping(raw, st.format, sv)]
                      ELSE base
             ELSE IF ~st.invalid THEN [base EXCEPT !.newValue = sv] ELSE base

\* classify that formats the text also while state.invalid is true
classify_formatsInvalid(raw, st) ==
    LET sv == st.value
        base == [newValue |-> raw, invalid |-> st.invalid,
                 initialValue |-> st.initialValue, dateValue |-> st.dateValue,
                 paste |-> st.paste]
    IN  IF truthy(st.paste)
        THEN LET date == fromString(st.localTimezone, raw)
             IN  IF date # null
                 THEN [newValue |-> formatDate(date, st.format, st.localTimezone),
                       invalid |-> FALSE, initialValue |-> date, dateValue |-> date,
                       paste |-> toUTCString(st.localTimezone, date)]
                 ELSE [base EXCEPT !.invalid = TRUE, !.dateValue = null, !.paste = null]
        ELSE IF Len(sv) >= Len(raw)
        THEN IF Len(sv) - Len(raw) = 1
             THEN IF CharAt(raw, Len(raw) - 1) # CharAt(sv, Len(sv) - 1)
                  THEN LET nv == handleDeletion(raw, sv)
                       IN  [base EXCEPT
                              !.newValue = nv,
                              !.invalid =
                                  IF Len(nv) <= 10
                                  THEN ~parse(nv, st.format, st.localTimezone,
                                              st.initialValue).valid
                                  ELSE TRUE]
                  ELSE [base EXCEPT !.invalid = TRUE]
             ELSE IF Len(raw) = 0 THEN [base EXCEPT !.invalid = TRUE] ELSE base
        ELSE IF Len(raw) <= 10
             THEN LET oldSlice == substr0(sv, Len(sv) - 1)
                      newSlice == substr0(raw, Len(raw) - 2)
                  IN  IF Len(raw) > 1 /\ newSlice # oldSlice
                      THEN [base EXCEPT !.invalid = TRUE]
                      ELSE [base EXCEPT !.newValue = handleTyping(raw, st.format, sv)]
             ELSE IF ~st.invalid THEN [base EXCEPT !.newValue = sv] ELSE base

\* classify that clears the flag when a character is put at the end of an
\* invalid buffer
classify_appendClears(raw, st) ==
    LET sv == st.value
        base == [newValue |-> raw, invalid |-> st.invalid,
                 initialValue |-> st.initialValue, dateValue |-> st.dateValue,
                 paste |-> st.paste]
    IN  IF truthy(st.paste)
        THEN LET date == fromString(st.localTimezone, raw)
             IN  IF date # null
                 THEN [newValue |-> formatDate(date, st.format, st.localTimezone),
                       invalid |-> FALSE, initialValue |-> date, dateValue |-> date,
                       paste |-> toUTCString(st.localTimezone, date)]
                 ELSE [base EXCEPT !.invalid = TRUE, !.dateValue = null, !.paste = null]
        ELSE IF Len(sv) >= Len(raw)
        THEN IF Len(sv) - Len(raw) = 1
             THEN IF CharAt(raw, Len(raw) - 1) # CharAt(sv, Len(sv) - 1)
                  THEN LET nv == handleDeletion(raw, sv)
                       IN  [base EXCEPT
                              !.newValue = nv,
                              !.invalid =
                                  IF Len(nv) <= 10
                                  THEN ~parse(nv, st.format, st.localTimezone,
                                              st.initialValue).valid
                                  ELSE TRUE]
                  ELSE [base EXCEPT !.invalid = TRUE]
             ELSE IF Len(raw) = 0 THEN [base EXCEPT !.invalid = TRUE] ELSE base
        ELSE IF Len(raw) <= 10
             THEN LET oldSlice == substr0(sv, Len(sv) - 1)
                      newSlice == substr0(raw, Len(raw) - 2)
                  IN  IF Len(raw) > 1 /\ newSlice # oldSlice
                      THEN [base EXCEPT !.invalid = TRUE]
                      ELSE IF ~st.invalid
                      THEN [base EXCEPT !.newValue = handleTyping(raw, st.format, sv)]
                      ELSE [base EXCEPT !.invalid = FALSE]
             ELSE IF ~st.invalid THEN [base EXCEPT !.newValue = sv] ELSE base

\* lines 466-533: the buffer, the flag, the dates and this.paste before the
\* buffer is parsed
classify(raw, st) ==
    LET sv == st.value
        base == [newValue |-> raw, invalid |-> st.invalid,
                 initialValue |-> st.initialValue, dateValue |-> st.dateValue,
                 paste |-> st.paste]
    IN  IF truthy(st.paste)
        THEN LET date == fromString(st.localTimezone, raw)
             IN  IF date # null
                 THEN [newValue |-> formatDate(date, st.format, st.localTimezone),
                       invalid |-> FALSE, initialValue |-> date, dateValue |-> date,
                       paste |-> toUTCString(st.localTimezone, date)]
                 ELSE [base EXCEPT !.invalid = TRUE, !.dateValue = null, !.paste = null]
        ELSE IF Len(sv) >= Len(raw)
        THEN IF Len(sv) - Len(raw) = 1
             THEN IF CharAt(raw, Len(raw) - 1) # CharAt(sv, Len(sv) - 1)
                  THEN LET nv == handleDeletion(raw, sv)
                       IN  [base EXCEPT
                              !.newValue = nv,
                              !.invalid =
                                  IF Len(nv) <= 10
                                  THEN ~parse(nv, st.format, st.localTimezone,
                                              st.initialValue).valid
                                  ELSE TRUE]
                  ELSE [base EXCEPT !.invalid = TRUE]
             ELSE IF Len(raw) = 0 THEN [base EXCEPT !.invalid = TRUE] ELSE base
        ELSE IF Len(raw) <= 10
             THEN LET oldSlice == substr0(sv, Len(sv) - 1)
                      newSlice == substr0(raw, Len(raw) - 2)
                  IN  IF Len(raw) > 1 /\ newSlice # oldSlice
                      THEN [base EXCEPT !.invalid = TRUE]
                      ELSE IF ~st.invalid
                      THEN [base EXCEPT !.newValue = handleTyping(raw, st.format, sv)]
                      ELSE base
             ELSE IF ~st.invalid THEN [base EXCEPT !.newValue = sv] ELSE base

\* parseBuffer without the reset of the flag for an empty buffer
parseBuffer_noEmptyReset(c, st) ==
    LET result == parse(c.newValue, st.format, st.localTimezone, st.initialValue)
    IN  IF result.valid
        THEN [value |-> c.newValue, invalid |-> FALSE, error |-> FALSE,
              dateValue |-> makeDateValue(result, st.localTimezone, c.initialValue),
              initialValue |-> c.initialValue, paste |-> c.paste]
        ELSE [value |-> c.newValue, invalid |-> c.invalid, error |-> c.invalid,
              dateValue |-> null, initialValue |-> c.initialValue,
              paste |-> c.paste]

\* parseBuffer that keeps the date of the state when the buffer does not parse
parseBuffer_staleDate(c, st) ==
    LET result == parse(c.newValue, st.format, st.localTimezone, st.initialValue)
        invalid1 == IF Len(c.newValue) = 0 THEN FALSE ELSE c.invalid
    IN  IF result.valid
        THEN [value |-> c.newValue, invalid |-> FALSE, error |-> FALSE,
              dateValue |-> makeDateValue(result, st.localTimezone, c.initialValue),
              initialValue |-> c.initialValue, paste |-> c.paste]
        ELSE [value |-> c.newValue, invalid |-> invalid1, error |-> invalid1,
              dateValue |-> c.dateValue, initialValue |-> c.initialValue,
              paste |-> c.paste]

\* parseBuffer that gives a buffer of 11 characters to the free-form parser
parseBuffer_overrideAt11(c, st) ==
    LET newValue == c.newValue
        invalid1 == IF Len(newValue) = 0 THEN FALSE ELSE c.invalid
    IN  IF Len(newValue) > 10
        THEN LET date == fromString(st.localTimezone, newValue)
             IN  IF date # null
                 THEN [value |-> formatDate(date, st.format, st.localTimezone),
                       invalid |-> FALSE, error |-> FALSE, dateValue |-> date,
                       initialValue |-> date, paste |-> c.paste]
                 ELSE [value |-> newValue, invalid |-> TRUE, error |-> TRUE,
                       dateValue |-> null, initialValue |-> c.initialValue,
                       paste |-> c.paste]
        ELSE LET result == parse(newValue, st.format, st.localTimezone, st.initialValue)
             IN  IF result.valid
                 THEN [value |-> newValue, invalid |-> FALSE, error |-> FALSE,
                       dateValue |-> makeDateValue(result, st.localTimezone,
                                                   c.initialValue),
                       initialValue |-> c.initialValue, paste |-> c.paste]
                 ELSE [value |-> newValue, invalid |-> invalid1, error |-> invalid1,
                       dateValue |-> null, initialValue |-> c.initialValue,
                       paste |-> c.paste]

\* parseBuffer whose long-buffer override leaves the reference date as it was
parseBuffer_keepsReference(c, st) ==
    LET newValue == c.newValue
        invalid1 == IF Len(newValue) = 0 THEN FALSE ELSE c.invalid
    IN  IF Len(newValue) > 11
        THEN LET date == fromString(st.localTimezone, newValue)
             IN  IF date # null
                 THEN [value |-> formatDate(date, st.format, st.localTimezone),
                       invalid |-> FALSE, error |-> FALSE, dateValue |-> date,
                       initialValue |-> c.initialValue, paste |-> c.paste]
                 ELSE [value |-> newValue, invalid |-> TRUE, error |-> TRUE,
                       dateValue |-> null, initialValue |-> c.initialValue,
                       paste |-> c.paste]
        ELSE LET result == parse(newValue, st.format, st.localTimezone, st.initialValue)
             IN  IF result.valid
                 THEN [value |-> newValue, invalid |-> FALSE, error |-> FALSE,
                       dateValue |-> makeDateValue(result, st.localTimezone,
                                                   c.initialValue),
                       initialValue |-> c.initialValue, paste |-> c.paste]
                 ELSE [value |-> newValue, invalid |-> invalid1, error |-> invalid1,
                       dateValue |-> null, initialValue |-> c.initialValue,
                       paste |-> c.paste]

\* lines 535-588: the state that onInput sets, and this.paste, from what the
\* classifier left (c)
parseBuffer(c, st) ==
    LET newValue == c.newValue
        invalid1 == IF Len(newValue) = 0 THEN FALSE ELSE c.invalid
    IN  IF Len(newValue) > 11
        THEN LET date == fromString(st.localTimezone, newValue)
             IN  IF date # null
                 THEN [value |-> formatDate(date, st.format, st.localTimezone),
                       invalid |-> FALSE, error |-> FALSE, dateValue |-> date,
                       initialValue |-> date, paste |-> c.paste]
                 ELSE [value |-> newValue, invalid |-> TRUE, error |-> TRUE,
                       dateValue |-> null, initialValue |-> c.initialValue,
                       paste |-> c.paste]
        ELSE LET result == parse(newValue, st.format, st.localTimezone, st.initialValue)
             IN  IF result.valid
                 THEN [value |-> newValue, invalid |-> FALSE, error |-> FALSE,
                       dateValue |-> makeDateValue(result, st.localTimezone,
                                                   c.initialValue),
                       initialValue |-> c.initialValue, paste |-> c.paste]
                 ELSE [value |-> newValue, invalid |-> invalid1, error |-> invalid1,
                       dateValue |-> null, initialValue |-> c.initialValue,
                       paste |-> c.paste]

\* onInput(event) with event.target.value = raw: the state it sets and this.paste
onInput(raw, st) == parseBuffer(classify(raw, st), st)

(***************************************************************************)
(* The change notification emitter                                         *)
(***************************************************************************)
onChangeCall(arg) == [callback |-> "onChange", arg |-> arg]

onPasteCall(arg) == [callback |-> "onPaste", arg |-> arg]

\* componentDidUpdate that calls nothing when the state holds no date
didUpdateNotes_silentInvalid(oldValue, newValue, newDateValue, p, local, withOnPaste) ==
    IF (oldValue # newValue \/ truthy(p)) /\ newDateValue # null
    THEN IF isString(p) /\ withOnPaste
         THEN <<onPasteCall(p)>>
         ELSE <<onChangeCall(toUTCString(local, newDateValue))>>
    ELSE <<>>

\* componentDidUpdate that never calls props.onPaste
didUpdateNotes_onChangeOnly(oldValue, newValue, newDateValue, p, local, withOnPaste) ==
    IF oldValue # newValue \/ truthy(p)
    THEN IF newDateValue # null
         THEN <<onChangeCall(toUTCString(local, newDateValue))>>
         ELSE <<onChangeCall(InvalidText)>>
    ELSE <<>>

\* componentDidUpdate: the callbacks it calls, given the value before the
\* update and the state and this.paste after it
didUpdateNotes(oldValue, newValue, newDateValue, p, local, withOnPaste) ==
    IF oldValue # newValue \/ truthy(p)
    THEN IF newDateValue # null
         THEN IF isString(p) /\ withOnPaste
              THEN <<onPasteCall(p)>>
              ELSE <<onChangeCall(toUTCString(local, newDateValue))>>
         ELSE <<onChangeCall(InvalidText)>>
    ELSE <<>>

\* componentDidUpdate that never clears this.paste
didUpdatePaste_keep(oldValue, newValue, newDateValue, p) == p

\* componentDidUpdate: this.paste after it
didUpdatePaste(oldValue, newValue, newDateValue, p) ==
    IF (oldValue # newValue \/ truthy(p)) /\ newDateValue # null
    THEN pasteFalse
    ELSE p

(***************************************************************************)
(* Bounds of the model: what the host and the user supply                  *)
(***************************************************************************)
\* the longest text the input element is given
MaxRawLen == 13

\* the user types and deletes single characters at the end of a text shorter
\* than this, or of a full text; other texts enter the input whole
MaxTypedLen == 7

\* the same, for a text that is kept as typed (state.invalid)
MaxLiteralLen == 3

\* the user types in front of a text shorter than this
MaxInsertLen == 3

\* the length of a full date: month, day, a year of four digits and two '/'
FullLen == 10

\* the deepest nesting of an event target below the container element
MaxDepth == 6

\* the levels that the ancestor walk of handleDropdown climbs
WalkLevels == 5

\* the characters the user types
TypeChars == {"1", "4"}

TextDMY == <<"3", "0", "/", "0", "4", "/", "4", "5">>
TextYMD == <<"2", "0", "2", "4", "/", "0", "2", "/", "2", "9">>

\* texts that replace the whole content of the input (typed over a selection,
\* dropped or pasted)
Texts == {<<>>, TextMarch3, TextApril30, TextNotADate, TextDMY, TextYMD}

Seeds == {SeedNone, SeedString(TextMarch3)}

\* the props of the hosts of the model: format, localTimezone, onPaste
\* supplied.  Every two of the three props meet in all their values.
Hosts ==
    {<<MMDDYYYY, TRUE, TRUE>>, <<MMDDYYYY, FALSE, FALSE>>,
     <<DDMMYYYY, TRUE, FALSE>>, <<DDMMYYYY, FALSE, TRUE>>,
     <<YYYYMMDD, TRUE, TRUE>>, <<YYYYMMDD, FALSE, FALSE>>}

\* dates of the calendar dropdown
SelectDates == {mkDate(2024, 1, 29, 21, 0, 0)}

(***************************************************************************)
(* The events                                                              *)
(***************************************************************************)
State ==
    [value |-> value, invalid |-> invalid, initialValue |-> initialValue,
     dateValue |-> dateValue, paste |-> paste, format |-> format,
     localTimezone |-> localTimezone]

\* what is kept of the last event: its kind, whether it changed the text
\* and, of an input event, whether this.paste was set when it came (pasted),
\* whether the free-form parser takes its text (freeform) and whether its
\* text has more than 10 characters (long)
Event(kind, changed, freeform) ==
    [kind |-> kind, pasted |-> kind = "input" /\ truthy(paste),
     changed |-> changed, freeform |-> freeform, long |-> FALSE]

\* the update that follows a setState or new props: componentDidUpdate
Settle(newValue, newDateValue, p) ==
    /\ notes' = didUpdateNotes(value, newValue, newDateValue, p, localTimezone,
                               hasOnPaste)
    /\ paste' = didUpdatePaste(value, newValue, newDateValue, p)

Init ==
    /\ ControlIsMounted
    /\ seed \in Seeds
    /\ \E host \in Hosts :
           /\ format = host[1]
           /\ localTimezone = host[2]
           /\ hasOnPaste = host[3]
    /\ LET newState == getInitialState(seed, format, localTimezone)
       IN  /\ value = newState.value
           /\ invalid = newState.invalid
           /\ initialValue = newState.initialValue
           /\ dateValue = newState.dateValue
           /\ error = newState.invalid
    /\ visible = FALSE
    /\ paste = pasteFalse
    /\ notes = <<>>
    /\ last = [kind |-> "constructor", pasted |-> FALSE, changed |-> FALSE,
               freeform |-> FALSE, long |-> FALSE]
    /\ probe = [op |-> "none"]

\* the input event with event.target.value = raw
Input(raw) ==
    \E r \in {onInput(raw, State)} :
        /\ Len(raw) <= MaxRawLen
        /\ value' = r.value
        /\ invalid' = r.invalid
        /\ error' = r.error
        /\ dateValue' = r.dateValue
        /\ initialValue' = r.initialValue
        /\ Settle(r.value, r.dateValue, r.paste)
        /\ last' = [Event("input", r.value # value,
                          fromString(localTimezone, raw) # null)
                        EXCEPT !.long = Len(raw) > FullLen]
        /\ UNCHANGED <<visible, props>>

\* the user types a character at the end of the text
TypeChar ==
    \E c \in TypeChars :
        /\ Len(value) < (IF invalid THEN MaxLiteralLen ELSE MaxTypedLen)
        /\ Input(Append(value, c))

\* the user types a character at the end of a full text
TypeOverflow ==
    \E c \in TypeChars :
        /\ Len(value) >= FullLen
        /\ Input(Append(value, c))

\* the user deletes the last character
Backspace ==
    /\ Len(value) > 0
    /\ Len(value) < MaxTypedLen \/ Len(value) >= FullLen
    /\ Input(SubSeq(value, 1, Len(value) - 1))

\* the user types a character in front of the text
InsertChar ==
    /\ Len(value) > 0
    /\ Len(value) < MaxInsertLen
    /\ \E c \in {"1"} : Input(<<c>> \o value)

\* the whole text is replaced
ReplaceText == \E t \in Texts : Input(t)

\* onPaste(event)
Paste ==
    /\ paste' = pasteTrue
    /\ notes' = <<>>
    /\ last' = Event("paste", FALSE, FALSE)
    /\ UNCHANGED <<value, dateValue, initialValue, visible, invalid, error, props>>

\* onFocus()
Focus ==
    /\ visible' = TRUE
    /\ Settle(value, dateValue, paste)
    /\ last' = Event("focus", FALSE, FALSE)
    /\ UNCHANGED <<value, dateValue, initialValue, invalid, error, props>>

\* the targets of window events
Targets ==
    {[isInput |-> TRUE, inside |-> TRUE, depth |-> 2],
     [isInput |-> FALSE, inside |-> FALSE, depth |-> 0]}
    \cup {[isInput |-> FALSE, inside |-> TRUE, depth |-> d] :
              d \in {0} \cup (WalkLevels..MaxDepth)}

\* the ancestor walk that takes every element of the container for found
WalkFindsContainer_anyDepth(inside, depth) == inside

\* the ancestor walk that stops one ancestor earlier
WalkFindsContainer_fourAncestors(inside, depth) == inside /\ depth < WalkLevels

\* the ancestor walk of handleDropdown: the target is the container or has
\* it among its first 5 ancestors
WalkFindsContainer(inside, depth) == inside /\ depth <= WalkLevels

\* handleDropdown that does not ask whether the target is the input
WindowEventAt_noInputCheck(target) ==
    LET inside == target.inside
        depth == target.depth
    IN  /\ last' = Event("window", FALSE, FALSE)
        /\ UNCHANGED <<value, dateValue, initialValue, invalid, error>>
        /\ UNCHANGED <<seed, format, localTimezone, hasOnPaste, listeners, lifecycle>>
        /\ IF ~visible \/ (~target.isInput /\ WalkFindsContainer(inside, depth))
           THEN /\ notes' = <<>>
                /\ UNCHANGED <<visible, paste>>
           ELSE /\ visible' = FALSE
                /\ Settle(value, dateValue, paste)

\* handleDropdown(event): a click or focusin of the window.  The target is
\* the input element, or an element `depth` levels below the container, or
\* an element outside the container
WindowEventAt(target) ==
    LET isInput == target.isInput
        inside == target.inside
        depth == target.depth
    IN  /\ last' = Event("window", FALSE, FALSE)
        /\ UNCHANGED <<value, dateValue, initialValue, invalid, error>>
        /\ UNCHANGED <<seed, format, localTimezone, hasOnPaste, listeners, lifecycle>>
        /\ IF isInput \/ ~visible \/ WalkFindsContainer(inside, depth)
           THEN /\ notes' = <<>>
                /\ UNCHANGED <<visible, paste>>
           ELSE /\ visible' = FALSE
                /\ Settle(value, dateValue, paste)

HandleDropdown == \E target \in Targets : WindowEventAt(target) /\ probe' = probe

\* onSelect(newValue): a date is chosen in the calendar
Select ==
    \E d \in SelectDates :
        LET newValue == formatDate(d, format, localTimezone)
            newDate == fromDate(localTimezone, d)
        IN  /\ value' = newValue
            /\ error' = FALSE
            /\ visible' = FALSE
            /\ dateValue' = newDate
            /\ Settle(newValue, newDate, paste)
            /\ last' = Event("select", newValue # value, FALSE)
            /\ UNCHANGED <<initialValue, invalid, props>>

\* what a seed is compared by when Date objects are compared by their time
SeedTime(sd) == IF sd.k = "Date" THEN sd.d ELSE sd

\* componentWillReceiveProps that takes two Date objects of the same time
\* for the same seed
componentWillReceiveProps_byTime(newSeed) ==
    IF SeedTime(seed) # SeedTime(newSeed)
    THEN LET newState == getInitialState(newSeed, format, localTimezone)
         IN  [value |-> newState.value, invalid |-> newState.invalid,
              initialValue |-> newState.initialValue,
              dateValue |-> newState.dateValue,
              visible |-> visible, error |-> newState.invalid]
    ELSE [value |-> value, invalid |-> invalid, initialValue |-> initialValue,
          dateValue |-> dateValue, visible |-> visible, error |-> error]

\* componentWillReceiveProps(newProps): the state it sets, or the state as
\* it is when the seed is the same (!==, which is identity for objects)
componentWillReceiveProps(newSeed) ==
    IF seed # newSeed
    THEN LET newState == getInitialState(newSeed, format, localTimezone)
         IN  [value |-> newState.value, invalid |-> newState.invalid,
              initialValue |-> newState.initialValue,
              dateValue |-> newState.dateValue,
              visible |-> visible, error |-> newState.invalid]
    ELSE [value |-> value, invalid |-> invalid, initialValue |-> initialValue,
          dateValue |-> dateValue, visible |-> visible, error |-> error]

\* new props with the seed newSeed, and the update that follows them
ReceiveSeed(newSeed) ==
    \E r \in {componentWillReceiveProps(newSeed)} :
        /\ seed' = newSeed
        /\ value' = r.value
        /\ dateValue' = r.dateValue
        /\ invalid' = r.invalid
        /\ error' = r.error
        /\ initialValue' = r.initialValue
        /\ visible' = r.visible
        /\ Settle(r.value, r.dateValue, paste)
        /\ last' = Event("props", r.value # value, FALSE)
        /\ UNCHANGED <<format, localTimezone, hasOnPaste, probe, listeners,
                       lifecycle>>

ReceiveProps == \E newSeed \in Seeds : ReceiveSeed(newSeed)

Next ==
    \/ TypeChar
    \/ TypeOverflow
    \/ Backspace
    \/ InsertChar
    \/ ReplaceText
    \/ Paste
    \/ Focus
    \/ HandleDropdown
    \/ Select
    \/ ReceiveProps

Spec == Init /\ [][Next]_vars

(***************************************************************************)
(* Properties of the change notification emitter and of the validity flag  *)
(***************************************************************************)
\* the buffer of the state parses to a calendar-valid date
BufferParses == parse(value, format, localTimezone, initialValue).valid

\* the same as onInput reads the buffer (lines 535-556): a buffer of more than
\* 11 characters is read by the free-form parser, a shorter one by parse
ControlParses ==
    IF Len(value) > 11
    THEN fromString(localTimezone, value) # null
    ELSE BufferParses

HasNote(n) == \E i \in 1..Len(notes) : notes[i] = n

CallsOnPaste == \E i \in 1..Len(notes) : notes[i].callback = "onPaste"

\* the last event is an input edit that came with this.paste unset
TypedEdit == last.kind = "input" /\ ~last.pasted

\* the last event is an input edit that came after a paste event
PasteEdit == last.kind = "input" /\ last.pasted

\* C1: after an input edit that is not a paste edit and changes the buffer,
\* exactly one callback is called: onChange with the UTC string of the parsed
\* date when the buffer parses to a valid date, onChange("invalid") otherwise;
\* onPaste is not called.
C1_EditNotifiesOnce ==
    (TypedEdit /\ last.changed) =>
        IF ControlParses
        THEN /\ dateValue # null
             /\ notes = <<onChangeCall(toUTCString(localTimezone, dateValue))>>
        ELSE notes = <<onChangeCall(InvalidText)>>

C1_Witness ==
    /\ TypedEdit /\ last.changed /\ ControlParses
    /\ Len(notes) = 1 /\ notes[1].callback = "onChange"
    /\ notes[1].arg.k = "UTC string"

\* C2 (as claimed): after an event that leaves the buffer as it was and is
\* not a paste edit, neither onChange nor onPaste is called.
C2_UnchangedIsSilent ==
    (~last.changed /\ ~PasteEdit) => notes = <<>>

\* C3: a paste event followed by an input edit whose text the free-form
\* parser takes, with onPaste supplied, calls onPaste exactly once, with the
\* UTC string of the pasted date, and does not call onChange.
C3_PasteCallsOnPaste ==
    (PasteEdit /\ last.freeform /\ hasOnPaste) =>
        /\ dateValue # null
        /\ dateValue = initialValue
        /\ notes = <<onPasteCall(toUTCString(localTimezone, initialValue))>>

C3_Witness ==
    /\ PasteEdit /\ last.freeform /\ hasOnPaste
    /\ notes = <<onPasteCall(toUTCString(localTimezone, mkDate(2024, 2, 3, 0, 0, 0)))>>

\* C4: onPaste is called only by an input edit that follows a paste event and
\* whose text parsed to a date: never by a typed edit, a deletion, a
\* calendar selection, a focus or click, or a change of the seed.
C4_OnPasteOnlyAfterPaste ==
    CallsOnPaste => (PasteEdit /\ last.freeform)

C4_Witness == CallsOnPaste /\ PasteEdit /\ last.freeform /\ ~last.changed

\* C5 (as claimed): whenever onChange("invalid") is called, the buffer is
\* non-empty and does not parse.
C5_InvalidOnlyNonEmpty ==
    HasNote(onChangeCall(InvalidText)) => (Len(value) > 0 /\ ~BufferParses)

\* C5 (amended): whenever onChange("invalid") is called, the state holds no
\* parsed date; the buffer may be empty: an input edit or a change of the seed
\* that empties a non-empty buffer calls onChange("invalid").
C5_InvalidMeansNoDate ==
    /\ HasNote(onChangeCall(InvalidText)) => dateValue = null
    /\ (last.kind \in {"input", "props"} /\ last.changed /\ value = <<>>) =>
           notes = <<onChangeCall(InvalidText)>>

C5_Witness ==
    /\ last.kind = "input" /\ last.changed /\ value = <<>>
    /\ notes = <<onChangeCall(InvalidText)>>
    /\ ~invalid

\* C6: every input edit that leaves the buffer empty settles with
\* state.invalid false, state.error false and no parsed date.
C6_EmptyIsNotAnError ==
    (last.kind = "input" /\ value = <<>>) =>
        (~invalid /\ ~error /\ dateValue = null)

C6_Witness ==
    /\ last.kind = "input" /\ last.changed /\ value = <<>>
    /\ ~invalid /\ ~error /\ dateValue = null

\* C7 (as claimed): in every state whose buffer is non-empty and does not
\* parse, state.invalid is true.
C7_UnparseableIsInvalid ==
    (Len(value) > 0 /\ ~BufferParses) => invalid

\* C7 (amended): in every state whose buffer is non-empty and does not parse,
\* the state holds no parsed date, and state.invalid is true when the state
\* was left by a paste edit; characters typed at the end of the buffer while
\* state.invalid is false (a single digit in an empty buffer) leave it false.
C7_UnparseableHasNoDate ==
    (Len(value) > 0 /\ ~BufferParses) =>
        /\ dateValue = null
        /\ PasteEdit => invalid

C7_TypedDigit ==
    /\ Len(value) = 1 /\ ~BufferParses /\ TypedEdit /\ last.changed
    /\ ~invalid /\ dateValue = null

C7_Witness ==
    /\ Len(value) > 0 /\ ~BufferParses /\ PasteEdit /\ invalid

(***************************************************************************)
(* parse on its own: texts of digits and '/' given to parse, and the date  *)
(* of the result formatted and parsed again                                *)
(***************************************************************************)
\* the numbers between the '/' of the texts
Components ==
    {<<>>, <<"0">>, <<"1">>, <<"4">>, <<"0", "2">>, <<"0", "4">>, <<"1", "2">>,
     <<"1", "3">>,
     <<"2", "9">>, <<"3", "0">>, <<"3", "1">>, <<"3", "2">>, <<"4", "5">>,
     <<"1", "9", "0", "0">>, <<"2", "0", "2", "4">>,
     <<"9", "9", "9", "9", "9", "9">>}

\* the components of the texts of one, two and four numbers
FewComponents == {<<>>, <<"1">>, <<"2", "0", "2", "4">>}

Slash == <<"/">>

ParseTexts ==
    {a \o Slash \o b \o Slash \o c : a \in Components, b \in Components,
                                     c \in Components}
    \cup FewComponents
    \cup {a \o Slash \o b : a \in FewComponents, b \in FewComponents}
    \cup {a \o Slash \o b \o Slash \o c \o Slash \o d :
              a \in FewComponents, b \in FewComponents,
              c \in FewComponents, d \in FewComponents}

\* a control without a date, of any format and timezone mode, and a text
InitParse ==
    /\ ControlIsMounted
    /\ seed = SeedNone
    /\ format \in Formats
    /\ localTimezone \in BOOLEAN
    /\ hasOnPaste = FALSE
    /\ LET newState == getInitialState(seed, format, localTimezone)
       IN  /\ value = newState.value
           /\ invalid = newState.invalid
           /\ initialValue = newState.initialValue
           /\ dateValue = newState.dateValue
           /\ error = newState.invalid
    /\ visible = FALSE
    /\ paste = pasteFalse
    /\ notes = <<>>
    /\ last = [kind |-> "constructor", pasted |-> FALSE, changed |-> FALSE,
               freeform |-> FALSE, long |-> FALSE]
    /\ \E text \in ParseTexts : probe = [op |-> "text", text |-> text]

\* this.parse(text)
ApplyParse ==
    /\ probe.op = "text"
    /\ probe' = [op |-> "parse", text |-> probe.text,
                 result |-> parse(probe.text, format, localTimezone, initialValue)]
    /\ UNCHANGED <<value, dateValue, initialValue, visible, invalid, error, paste,
                   seed, format, localTimezone, hasOnPaste, notes, last,
                   listeners, lifecycle>>

\* the date that onInput makes of a valid result (lines 557-576), formatted
\* as the control formats a date and parsed again
ApplyFormat ==
    /\ probe.op = "parse"
    /\ probe.result.valid
    /\ \E dv \in {makeDateValue(probe.result, localTimezone, initialValue)} :
       \E text \in {formatDate(dv, format, localTimezone)} :
           probe' = [op |-> "format", text |-> probe.text, result |-> probe.result,
                     date |-> dv, formatted |-> text,
                     again |-> parse(text, format, localTimezone, initialValue)]
    /\ UNCHANGED <<value, dateValue, initialValue, visible, invalid, error, paste,
                   seed, format, localTimezone, hasOnPaste, notes, last,
                   listeners, lifecycle>>

NextParse ==
    \/ ApplyParse
    \/ ApplyFormat

SpecParse == InitParse /\ [][NextParse]_vars

\* what the claim takes for a valid text: exactly three components, each a
\* number, with year >= 1, month in 1..12 and day within the month of the year
IsNumber(c) == Len(c) > 0 /\ \A i \in 1..Len(c) : IsDigit(c[i])

NumberOf(c) == DigitsValue(c, 1, 0)

YearOf(sp, fmt) == NumberOf(IF fmt = YYYYMMDD THEN sp[1] ELSE sp[3])

MonthOf(sp, fmt) == NumberOf(IF fmt = MMDDYYYY THEN sp[1] ELSE sp[2])

DayOf(sp, fmt) ==
    NumberOf(IF fmt = DDMMYYYY THEN sp[1] ELSE IF fmt = MMDDYYYY THEN sp[2] ELSE sp[3])

ThreeNumbers(text) ==
    LET sp == split(text)
    IN  Len(sp) = 3 /\ \A i \in 1..3 : IsNumber(sp[i])

CalendarValid(text, fmt) ==
    /\ ThreeNumbers(text)
    /\ LET sp == split(text)
           y == YearOf(sp, fmt)
           m == MonthOf(sp, fmt)
           d == DayOf(sp, fmt)
       IN  /\ y >= 1
           /\ m >= 1 /\ m <= 12
           /\ d >= 1 /\ d <= DaysInMonth(y, m - 1)

\* the year of a text of three numbers
TextYear(text, fmt) == IF ThreeNumbers(text) THEN YearOf(split(text), fmt) ELSE 0

\* C8 (as claimed): parse takes a text of digits and '/' for valid exactly
\* when it splits into three non-empty numbers with year >= 1, month in 1..12
\* and 1 <= day <= days of that month in that year, in each format.
C8_ParseIsCalendarValid ==
    probe.op = "parse" =>
        (probe.result.valid <=> CalendarValid(probe.text, format))

\* C8 (amended): the same for a text whose year is at most 275759, the last
\* whole year of a date; a year after 275760 is never valid.
C8_ParseIsCalendarValidInRange ==
    probe.op = "parse" =>
        /\ TextYear(probe.text, format) < MaxDateYear =>
               (probe.result.valid <=> CalendarValid(probe.text, format))
        /\ TextYear(probe.text, format) > MaxDateYear => ~probe.result.valid

C8_Witness ==
    /\ probe.op = "parse" /\ format = MMDDYYYY
    /\ probe.text = TextApril30
    /\ probe.result.valid

\* C9: the date of every text of at most 10 characters that parse takes for
\* valid, formatted and parsed again with the same format, is valid with the
\* same year, month and day.
C9_FormatParsesBack ==
    (probe.op = "format" /\ Len(probe.text) <= FullLen) =>
        /\ probe.again.valid
        /\ probe.again.year = probe.result.year
        /\ probe.again.month = probe.result.month
        /\ probe.again.date = probe.result.date

C9_Witness ==
    /\ probe.op = "format" /\ Len(probe.text) <= FullLen
    /\ probe.formatted # probe.text
    /\ probe.again.valid /\ probe.again.year = probe.result.year

\* C10: when the buffer parses to a valid date with a year Y in 1..99, the
\* parsed date of the state has the year Y, not 1900 + Y, and the month and
\* day of the buffer, in both timezone modes; every input edit that leaves
\* such a buffer leaves a parsed date.
C10_YearBelow100IsKept ==
    LET r == parse(value, format, localTimezone, initialValue)
    IN  (r.valid /\ r.year >= 1 /\ r.year <= 99) =>
            /\ last.kind = "input" => dateValue # null
            /\ dateValue # null =>
                   /\ dateValue.year = r.year
                   /\ dateValue.month = r.month - 1
                   /\ dateValue.date = r.date

C10_Witness ==
    /\ last.kind = "input" /\ ~localTimezone
    /\ value = <<"0", "4", "/", "0", "4", "/", "4">>
    /\ dateValue # null /\ dateValue.year = 4

(***************************************************************************)
(* Typing on its own: the keys the user presses at the end of the text of  *)
(* a control made without a seed, while state.invalid is false, and the    *)
(* deletion of the last character, also in a control made with a seed that *)
(* is not a date.  probe keeps the text before the key and the key.        *)
(***************************************************************************)
\* the keys of the model: digits on both sides of every threshold of
\* handleMonth and handleDay, the separator, and a letter
TypingKeys == {"0", "1", "2", "3", "4", "/", "a"}

\* the user types up to this length from an empty text
MaxKeyLen == 6

\* a year typed before the first key of the model, in the format that
\* begins with the year
YearText == <<"2", "0", "2", "4">>

\* the month and the day typed before the first key of the model, in the
\* formats that end with the year
MonthDayText == <<"1", "2", "3", "1">>
DayMonthText == <<"3", "1", "1", "2">>

\* onKeyPress(event), lines 646-660: the key is not prevented
KeyAllowed(c, stateValue) ==
    IF Len(stateValue) < 10
    THEN IsDigit(c) \/ (c = "/" /\ Len(split(stateValue)) < 3)
    ELSE TRUE

\* the state of the control after the keys of text, typed one by one
RECURSIVE AfterKeys(_, _, _)
AfterKeys(st, text, i) ==
    IF i > Len(text) THEN st
    ELSE LET r == onInput(Append(st.value, text[i]), st)
         IN  AfterKeys([st EXCEPT !.value = r.value, !.invalid = r.invalid,
                                  !.initialValue = r.initialValue,
                                  !.dateValue = r.dateValue,
                                  !.paste = didUpdatePaste(st.value, r.value,
                                                           r.dateValue, r.paste)],
                       text, i + 1)

\* the texts that are typed before the first key of the model: the keys,
\* and what the control has made of them
TypingStarts(fmt) ==
    {<<>>, IF fmt = YYYYMMDD THEN YearText
           ELSE IF fmt = MMDDYYYY THEN MonthDayText
           ELSE DayMonthText}

StartBuffer(start) ==
    IF start = MonthDayText THEN <<"1", "2", "/", "3", "1", "/">>
    ELSE IF start = DayMonthText THEN <<"3", "1", "/", "1", "2", "/">>
    ELSE IF start = YearText THEN <<"2", "0", "2", "4", "/">>
    ELSE start

TypingSeeds == {SeedNone, SeedString(TextNotADate)}

InitTyping ==
    /\ ControlIsMounted
    /\ seed \in TypingSeeds
    /\ format \in Formats
    /\ localTimezone = TRUE
    /\ hasOnPaste = FALSE
    /\ \E start \in IF seed = SeedNone THEN TypingStarts(format) ELSE {<<>>} :
         LET newState == getInitialState(seed, format, localTimezone)
         IN  /\ value = IF start = <<>> THEN newState.value ELSE StartBuffer(start)
             /\ invalid = newState.invalid
             /\ initialValue = newState.initialValue
             /\ dateValue = newState.dateValue
             /\ error = newState.invalid
             /\ paste = pasteFalse
             /\ probe = [op |-> "start", start |-> start]
    /\ visible = FALSE
    /\ notes = <<>>
    /\ last = [kind |-> "constructor", pasted |-> FALSE, changed |-> FALSE,
               freeform |-> FALSE, long |-> FALSE]

\* the control that starts with a typed text is in the state that the keys
\* of the text, typed one by one into the control as constructed, leave
StartIsTyped ==
    (probe.op = "start" /\ seed = SeedNone) =>
        \E st \in {AfterKeys([State EXCEPT !.value = <<>>], probe.start, 1)} :
            /\ value = st.value
            /\ invalid = st.invalid
            /\ initialValue = st.initialValue
            /\ dateValue = st.dateValue
            /\ paste = st.paste

\* a key that onKeyPress lets through, and the input event that follows it
PressKey ==
    \E c \in TypingKeys :
    \E r \in {onInput(Append(value, c), State)} :
        /\ KeyAllowed(c, value)
        /\ seed = SeedNone
        /\ ~invalid
        /\ IF probe.start = <<>>
           THEN Len(value) < MaxKeyLen
           ELSE /\ Len(value) <= FullLen
                /\ substr0(value, Len(StartBuffer(probe.start))) = StartBuffer(probe.start)
        /\ value' = r.value
        /\ invalid' = r.invalid
        /\ error' = r.error
        /\ dateValue' = r.dateValue
        /\ initialValue' = r.initialValue
        /\ Settle(r.value, r.dateValue, r.paste)
        /\ last' = Event("input", r.value # value, FALSE)
        /\ probe' = [op |-> "key", start |-> probe.start, before |-> value,
                     key |-> c]
        /\ UNCHANGED <<visible, seed, format, localTimezone, hasOnPaste,
                       listeners, lifecycle>>

\* the user deletes the last character: the input event without it
EraseLast ==
    \E r \in {onInput(SubSeq(value, 1, Len(value) - 1), State)} :
        /\ Len(value) > 0
        /\ value' = r.value
        /\ invalid' = r.invalid
        /\ error' = r.error
        /\ dateValue' = r.dateValue
        /\ initialValue' = r.initialValue
        /\ Settle(r.value, r.dateValue, r.paste)
        /\ last' = Event("input", r.value # value, FALSE)
        /\ probe' = [op |-> "erase", start |-> probe.start, before |-> value,
                     key |-> ""]
        /\ UNCHANGED <<visible, seed, format, localTimezone, hasOnPaste,
                       listeners, lifecycle>>

NextTyping ==
    \/ PressKey
    \/ EraseLast

SpecTyping == InitTyping /\ [][NextTyping]_vars

\* the segments of a text, counted from 0, and what the format puts there
SegmentIndex(text) == Len(split(text)) - 1

SegmentKind(fmt, index) ==
    IF fmt = MMDDYYYY THEN (IF index = 0 THEN "month" ELSE IF index = 1 THEN "day" ELSE "year")
    ELSE IF fmt = DDMMYYYY THEN (IF index = 0 THEN "day" ELSE IF index = 1 THEN "month" ELSE "year")
    ELSE (IF index = 0 THEN "year" ELSE IF index = 1 THEN "month" ELSE "day")

\* the text is empty or ends with the separator: the next digit begins a segment
AtSegmentStart(text) == Len(text) = 0 \/ text[Len(text)] = "/"

\* the length of the text in front of a segment when the segments before it
\* have their full width: two digits, and four for the year
SegmentOffset(fmt, index) ==
    IF index = 0 THEN 0
    ELSE IF fmt = YYYYMMDD THEN (IF index = 1 THEN 5 ELSE 8)
    ELSE (IF index = 1 THEN 3 ELSE 6)

\* the first digit of a month or day segment as the claim has it formatted
FirstDigitText(before, key, fmt) ==
    LET index == SegmentIndex(before)
        threshold == IF SegmentKind(fmt, index) = "month" THEN 1 ELSE 3
    IN  IF DigitVal(key) > threshold
        THEN before \o <<"0", key>> \o (IF index < 2 THEN <<"/">> ELSE <<>>)
        ELSE Append(before, key)

\* the last key was the first digit of a month or day segment
FirstDigitKey ==
    /\ probe.op = "key"
    /\ IsDigit(probe.key)
    /\ AtSegmentStart(probe.before)
    /\ SegmentIndex(probe.before) <= 2
    /\ SegmentKind(format, SegmentIndex(probe.before)) \in {"month", "day"}

\* C11 (as claimed): with state.invalid false, the first digit d of a month
\* segment becomes "0d" when d > 1 and stays as typed when d <= 1; for a day
\* segment the threshold is 3; after "0d" the separator is appended unless
\* the segment is the last of the format.
C11_FirstDigitIsFormatted ==
    FirstDigitKey => value = FirstDigitText(probe.before, probe.key, format)

\* C11 (amended): the same when the segments in front have their full width,
\* two digits and four for the year; the formatter goes by the length of the
\* text, not by its separators.
C11_FirstDigitIsFormattedAtOffset ==
    (FirstDigitKey
     /\ Len(probe.before) = SegmentOffset(format, SegmentIndex(probe.before))) =>
        value = FirstDigitText(probe.before, probe.key, format)

C11_Witness ==
    /\ FirstDigitKey /\ format = MMDDYYYY
    /\ probe.before = <<"1", "2", "/">> /\ probe.key = "4"
    /\ value = <<"1", "2", "/", "0", "4", "/">>

\* the last key was key, typed after the text before
KeyAfter(before, key) ==
    probe.op = "key" /\ probe.before = before /\ probe.key = key

\* C12 (as claimed): in MM/DD/YYYY, "1" typed into the empty buffer gives
\* "01", and "3" typed then is rejected and leaves "01".
C12_OneBecomesZeroOne ==
    format = MMDDYYYY =>
        /\ KeyAfter(<<>>, "1") => value = <<"0", "1">>
        /\ KeyAfter(<<"0", "1">>, "3") => value = <<"0", "1">>

\* C12 (amended): in MM/DD/YYYY, "1" typed into the empty buffer gives "1",
\* and "3" typed then is rejected: the buffer stays "1", state.invalid stays
\* false and no callback is called.
C12_OneStaysOne ==
    format = MMDDYYYY =>
        /\ KeyAfter(<<>>, "1") => value = <<"1">>
        /\ KeyAfter(<<"1">>, "3") => (value = <<"1">> /\ ~invalid /\ notes = <<>>)

C12_Witness ==
    format = MMDDYYYY /\ KeyAfter(<<"1">>, "3") /\ value = <<"1">>

\* the last key was the second digit of a month or day segment that stands
\* at the position the format gives it, and the two digits exceed the range
SecondDigitExceeds ==
    /\ probe.op = "key"
    /\ IsDigit(probe.key)
    /\ Len(probe.before) > 0
    /\ IsDigit(probe.before[Len(probe.before)])
    /\ SegmentIndex(probe.before) <= 2
    /\ Len(probe.before) = SegmentOffset(format, SegmentIndex(probe.before)) + 1
    /\ LET number == 10 * DigitVal(probe.before[Len(probe.before)])
                     + DigitVal(probe.key)
           kind == SegmentKind(format, SegmentIndex(probe.before))
       IN  \/ kind = "month" /\ number > 12
           \/ kind = "day" /\ number > 31

\* C13 (as claimed): in each format, a second digit that makes the month
\* exceed 12 or the day exceed 31 is rejected: the buffer stays as it was
\* before the key.
C13_SecondDigitIsRejected ==
    SecondDigitExceeds => value = probe.before

\* what the code does instead: the same in every segment but the day of
\* YYYY/MM/DD, where the digit is appended
C13_RejectedButLastDay ==
    SecondDigitExceeds =>
        IF format = YYYYMMDD /\ SegmentIndex(probe.before) = 2
        THEN value = Append(probe.before, probe.key)
        ELSE value = probe.before

\* the last event deleted the last character of probe.before
Erased == probe.op = "erase"

LongEditStep ==
    /\ last'.kind = "input" /\ last'.long
    /\ ~invalid /\ ~truthy(paste)

\* C15 (as claimed): with state.invalid false and no paste in progress, an
\* input edit of more than 10 characters is rejected: the buffer, the parsed
\* date and the flag stay as they were and no callback is called.
C15_LongEditChangesNothing ==
    [][LongEditStep =>
           /\ value' = value
           /\ dateValue' = dateValue
           /\ invalid' = invalid
           /\ notes' = <<>>]_vars

\* C15 (amended): the buffer and the flag stay as they were and no callback
\* is called; the parsed date is made again from the buffer: it is the same
\* calendar day, with the time of day of the reference date, which differs
\* from the time of a date chosen in the calendar.
C15_LongEditKeepsTheDay ==
    [][LongEditStep =>
           /\ value' = value
           /\ invalid' = invalid
           /\ notes' = <<>>
           /\ (dateValue' = null) = (dateValue = null)
           /\ dateValue' # null =>
                  /\ dateValue'.year = dateValue.year
                  /\ dateValue'.month = dateValue.month
                  /\ dateValue'.date = dateValue.date
                  /\ dateValue'.hours = initialValue.hours
                  /\ dateValue'.minutes = initialValue.minutes
                  /\ dateValue'.seconds = initialValue.seconds]_vars

C15_Witness ==
    /\ last.kind = "input" /\ last.long /\ ~last.pasted
    /\ ~invalid /\ notes = <<>>
    /\ Len(value) = FullLen /\ dateValue # null

\* the text has only digits and separators
IsDateText(text) == \A i \in 1..Len(text) : IsDigit(text[i]) \/ text[i] = "/"

\* C16 (as claimed): in every reachable state the buffer has only digits and
\* '/' and at most 10 characters.
C16_BufferIsDateText == IsDateText(value) /\ Len(value) <= FullLen

\* C16 (amended): in a control made without a seed, after keys that
\* onKeyPress lets through, typed at the end of the text while state.invalid
\* is false, and after deletions of the last character, the buffer has only
\* digits and '/' and at most 10 characters.
C16_TypedBufferIsDateText ==
    seed = SeedNone => IsDateText(value) /\ Len(value) <= FullLen

\* a letter was typed after a full text and has not entered the buffer
C16_Witness ==
    /\ seed = SeedNone
    /\ probe.op = "key" /\ probe.key = "a"
    /\ Len(probe.before) = FullLen
    /\ value = probe.before

(***************************************************************************)
(* The seed on its own: controls made with every kind of seed, new seeds,  *)
(* and between them the events that change what the seed has set           *)
(***************************************************************************)
SeedDay == mkDate(2024, 1, 29, 21, 0, 0)

\* no seed, strings (empty, a date, no date), two Date objects of the same
\* time and a Date object that is an Invalid Date
SeedObjects ==
    {SeedNone, SeedString(<<>>), SeedString(TextMarch3), SeedString(TextNotADate),
     DateObject(SeedDay, 1), DateObject(SeedDay, 2), DateObject(InvalidDate, 3)}

InitSeed ==
    /\ ControlIsMounted
    /\ seed \in SeedObjects
    /\ \E host \in Hosts :
           /\ format = host[1]
           /\ localTimezone = host[2]
           /\ hasOnPaste = host[3]
    /\ LET newState == getInitialState(seed, format, localTimezone)
       IN  /\ value = newState.value
           /\ invalid = newState.invalid
           /\ initialValue = newState.initialValue
           /\ dateValue = newState.dateValue
           /\ error = newState.invalid
    /\ visible = FALSE
    /\ paste = pasteFalse
    /\ notes = <<>>
    /\ last = [kind |-> "constructor", pasted |-> FALSE, changed |-> FALSE,
               freeform |-> FALSE, long |-> FALSE]
    /\ probe = [op |-> "none"]

ReceiveAnySeed == \E newSeed \in SeedObjects : ReceiveSeed(newSeed)

NextSeed ==
    \/ ReceiveAnySeed
    \/ Focus
    \/ Select
    \/ Backspace
    \/ Paste
    \/ ReplaceText

SpecSeed == InitSeed /\ [][NextSeed]_vars

Constructed == last.kind = "constructor"

\* what the claim says of a string seed that is no date
KeptAsText == value = seed.s /\ dateValue = null /\ invalid

\* what the claim says of no seed
StartsEmpty == value = <<>> /\ dateValue = null /\ ~invalid

\* what the claim says of a date: of a string that is one, or of a Date object
StartsWith(date) ==
    /\ value = formatDate(date, format, localTimezone)
    /\ dateValue = date
    /\ ~invalid

StringSeedIsDate ==
    /\ fromString(localTimezone, seed.s) # null
    /\ dateIsValid(fromString(localTimezone, seed.s), localTimezone)

\* C17 (as claimed): after construction, no seed gives the empty buffer, no
\* date and state.invalid false; a string seed that is a date gives that
\* date, formatted, and false; a string seed that is none gives the string
\* as it is, no date and true; a valid Date gives it, formatted, and false;
\* an invalid Date gives no date and true; always the dropdown is hidden
\* and state.error is state.invalid.
C17_ResolverCases ==
    Constructed =>
        /\ ~visible
        /\ error = invalid
        /\ seed.k = "undefined" => StartsEmpty
        /\ seed.k = "string" =>
               IF StringSeedIsDate
               THEN StartsWith(fromString(localTimezone, seed.s))
               ELSE KeptAsText
        /\ seed.k = "Date" =>
               IF dateIsValid(seed.d, localTimezone)
               THEN StartsWith(seed.d)
               ELSE dateValue = null /\ invalid

\* C17 (amended): the same, but the empty string is taken as no seed: the
\* buffer is empty, there is no date and state.invalid is false.
C17_ResolverCasesEmptyString ==
    Constructed =>
        /\ ~visible
        /\ error = invalid
        /\ seed.k = "undefined" => StartsEmpty
        /\ seed.k = "string" =>
               IF seed.s = <<>> THEN StartsEmpty
               ELSE IF StringSeedIsDate
               THEN StartsWith(fromString(localTimezone, seed.s))
               ELSE KeptAsText
        /\ seed.k = "Date" =>
               IF dateIsValid(seed.d, localTimezone)
               THEN StartsWith(seed.d)
               ELSE dateValue = null /\ invalid

C17_Witness ==
    /\ Constructed
    /\ seed = SeedString(<<>>)
    /\ value = <<>> /\ ~invalid /\ ~error /\ ~visible

\* the other cases of the resolver after construction
C17_FailedString ==
    Constructed /\ seed = SeedString(TextNotADate) /\ value = TextNotADate /\ invalid
C17_InvalidDate ==
    Constructed /\ seed.k = "Date" /\ seed.d = InvalidDate /\ invalid /\ error

\* the step gives the control new props
PropsStep == last'.kind = "props"

\* C18: new props with the same seed leave the buffer, the parsed date,
\* state.invalid, the reference date and the visibility of the dropdown as
\* they are; new props with another seed set the first four to what the
\* resolver makes of the new seed, whatever the user had entered, and leave
\* the visibility as it is.
C18_SeedChangeResets ==
    [][PropsStep =>
           IF seed' = seed
           THEN UNCHANGED <<value, dateValue, invalid, initialValue, visible>>
           ELSE /\ value' = getInitialState(seed', format, localTimezone).value
                /\ dateValue' = getInitialState(seed', format, localTimezone).dateValue
                /\ invalid' = getInitialState(seed', format, localTimezone).invalid
                /\ initialValue' =
                       getInitialState(seed', format, localTimezone).initialValue
                /\ visible' = visible]_vars

\* a second Date object of the same time has replaced what the user had made
\* of the buffer, and the dropdown is still shown
C18_Witness ==
    /\ last.kind = "props" /\ last.changed
    /\ seed = DateObject(SeedDay, 2)
    /\ value = formatDate(SeedDay, format, localTimezone)
    /\ dateValue = SeedDay
    /\ visible

(***************************************************************************)
(* The dropdown on its own: focus, the events of the window, the choice of *)
(* a date and new props.  probe keeps the target of the window event and   *)
(* whether the dropdown was shown when it came.                            *)
(***************************************************************************)
InitDropdown ==
    /\ Init
    /\ seed = SeedNone

ProbeDropdown ==
    \E target \in Targets :
        /\ WindowEventAt(target)
        /\ probe' = [op |-> "window", target |-> target, shown |-> visible]

NextDropdown ==
    \/ Focus
    \/ ProbeDropdown
    \/ Select
    \/ ReceiveProps

SpecDropdown == InitDropdown /\ [][NextDropdown]_vars

\* the last event was a click or focusin of the window
WindowEvent == last.kind = "window"

\* its target is an element other than the input that has the container
\* neither for itself nor among the ancestors the walk looks at
TargetIsOutside ==
    /\ ~probe.target.isInput
    /\ ~(probe.target.inside /\ probe.target.depth <= WalkLevels)

\* C19: a click or focusin of the window that comes while the dropdown is
\* shown, whose target is not the input and whose walk up the ancestors does
\* not reach the container, hides the dropdown.
C19_OutsideEventHides ==
    (WindowEvent /\ probe.shown /\ TargetIsOutside) => ~visible

\* the dropdown was shown and the event came from an element outside the
\* container
C19_Witness ==
    /\ WindowEvent /\ probe.shown
    /\ ~probe.target.isInput /\ ~probe.target.inside
    /\ ~visible

\* the same for an element in the container, below the reach of the walk
C19_DeepInside ==
    /\ WindowEvent /\ probe.shown
    /\ probe.target.inside /\ probe.target.depth > WalkLevels
    /\ ~visible

\* C39: while the dropdown is shown, a click or focusin of the window whose
\* target is not the input keeps it shown if and only if the container is
\* the target or one of its first 5 ancestors; a target deeper in the
\* container, or outside it, hides the dropdown.
C39_KeptIffWithinFiveAncestors ==
    (WindowEvent /\ probe.shown /\ ~probe.target.isInput) =>
        (visible <=> (probe.target.inside /\ probe.target.depth <= 5))

\* the container was the fifth ancestor of the target, and the dropdown is
\* still shown
C39_Witness ==
    /\ WindowEvent /\ probe.shown /\ ~probe.target.isInput
    /\ probe.target.inside /\ probe.target.depth = 5
    /\ visible

\* the container was the sixth ancestor of the target, and the dropdown is
\* hidden
C39_SixthAncestor ==
    /\ WindowEvent /\ probe.shown /\ ~probe.target.isInput
    /\ probe.target.inside /\ probe.target.depth = 6
    /\ ~visible

\* C20: after a focus of the input the dropdown is shown; a click or focusin
\* of the window whose target is the input leaves the dropdown as it was;
\* and one that comes while the dropdown is hidden leaves it hidden.
C20_DropdownMachine ==
    /\ last.kind = "focus" => visible
    /\ (WindowEvent /\ probe.target.isInput) => visible = probe.shown
    /\ (WindowEvent /\ ~probe.shown) => ~visible

\* the input was the target while the dropdown was shown, and it still is
C20_Witness ==
    /\ WindowEvent /\ probe.target.isInput /\ probe.shown /\ visible

\* an event from outside came while the dropdown was hidden
C20_HiddenStays ==
    /\ WindowEvent /\ ~probe.shown /\ ~probe.target.isInput /\ ~probe.target.inside
    /\ ~visible

(***************************************************************************)
(* Mounting and unmounting: instances of DatePicker and ComboInput come    *)
(* and go, and the window dispatches its events to its listeners.  The     *)
(* variables of the control hold the state of the first DatePicker; the    *)
(* dropdowns of the other instances stay hidden.                           *)
(***************************************************************************)
WindowEvents == {"click", "focusin"}

InitMount ==
    /\ lifecycle = [i \in Instances |-> "new"]
    /\ listeners = {}
    /\ seed = SeedNone
    /\ format = MMDDYYYY
    /\ localTimezone = TRUE
    /\ hasOnPaste = FALSE
    /\ LET newState == getInitialState(seed, format, localTimezone)
       IN  /\ value = newState.value
           /\ invalid = newState.invalid
           /\ initialValue = newState.initialValue
           /\ dateValue = newState.dateValue
           /\ error = newState.invalid
    /\ visible = FALSE
    /\ paste = pasteFalse
    /\ notes = <<>>
    /\ last = [kind |-> "constructor", pasted |-> FALSE, changed |-> FALSE,
               freeform |-> FALSE, long |-> FALSE]
    /\ probe = [op |-> "none"]

\* React mounts an instance: componentDidMount()
Mount ==
    \E inst \in Instances :
        /\ lifecycle[inst] = "new"
        /\ lifecycle' = [lifecycle EXCEPT ![inst] = "mounted"]
        /\ listeners' = componentDidMount(inst, listeners)
        /\ probe' = [op |-> "mount", inst |-> inst]
        /\ UNCHANGED <<value, dateValue, initialValue, visible, invalid, error, paste,
                       seed, format, localTimezone, hasOnPaste, notes, last>>

\* React unmounts an instance: componentWillUnmount()
Unmount ==
    \E inst \in Instances :
        /\ lifecycle[inst] = "mounted"
        /\ lifecycle' = [lifecycle EXCEPT ![inst] = "unmounted"]
        /\ listeners' = componentWillUnmount(inst, listeners)
        /\ probe' = [op |-> "unmount", inst |-> inst]
        /\ UNCHANGED <<value, dateValue, initialValue, visible, invalid, error, paste,
                       seed, format, localTimezone, hasOnPaste, notes, last>>

\* the input of the mounted control takes the focus
FocusMounted ==
    /\ lifecycle[TheControl] = "mounted"
    /\ Focus

\* the instances whose handleDropdown a window event of this type calls
Reached(type) ==
    {l.fn.of : l \in {m \in listeners : m.type = type /\ m.fn.k = "bound"}}

\* the window dispatches an event to its listeners.  The handleDropdown of
\* the mounted control does what WindowEventAt says; that of an unmounted
\* one runs too, and React drops the setState of an unmounted component
Dispatch ==
    \E type \in WindowEvents : \E target \in Targets :
        /\ probe' = [op |-> "dispatch", type |-> type, reached |-> Reached(type)]
        /\ IF TheControl \in Reached(type) /\ lifecycle[TheControl] = "mounted"
           THEN WindowEventAt(target)
           ELSE /\ notes' = <<>>
                /\ last' = Event("window", FALSE, FALSE)
                /\ UNCHANGED <<value, dateValue, initialValue, visible, invalid,
                               error, paste, seed, format, localTimezone,
                               hasOnPaste, listeners, lifecycle>>

NextMount ==
    \/ Mount
    \/ Unmount
    \/ FocusMounted
    \/ Dispatch

SpecMount == InitMount /\ [][NextMount]_vars

\* C21 (as claimed): after an instance is unmounted none of the listeners it
\* registered is left on the window, and no event of the window reaches the
\* handleDropdown of an unmounted instance.
C21_UnmountRemovesListeners ==
    /\ \A l \in listeners : l.fn.k = "bound" => lifecycle[l.fn.of] = "mounted"
    /\ probe.op = "dispatch" =>
           \A inst \in probe.reached : lifecycle[inst] = "mounted"

\* every mounted instance has one listener for each of its events
C21_MountRegisters ==
    \A inst \in Instances :
        lifecycle[inst] = "mounted" =>
            \A t \in EventTypes(inst.class) :
                [type |-> t, fn |-> BoundHandler(inst, t)] \in listeners

\* componentWillUnmount removes nothing
C21_ListenersStay ==
    [][(probe'.op = "unmount") => listeners' = listeners]_vars

\* a date of the calendar, not an Invalid Date
IsDate(d) == d.k = "date"

\* C22: in every reachable state the reference date is a date, so that
\* onInput always finds the time of day it carries over; the buffer is a
\* text, the parsed date a date or null, and the flags are booleans.
C22_StateIsDefined ==
    /\ initialValue # null /\ IsDate(initialValue)
    /\ dateValue = null \/ IsDate(dateValue)
    /\ value \in Seq({value[i] : i \in 1..Len(value)})
    /\ invalid \in BOOLEAN /\ error \in BOOLEAN /\ visible \in BOOLEAN

\* a text that is no date was pasted into a control whose seed is an Invalid
\* Date: the reference date is the current time
C22_Witness ==
    /\ seed.k = "Date" /\ seed.d = InvalidDate
    /\ last.kind = "input" /\ last.pasted
    /\ value = TextNotADate
    /\ initialValue = Today

\* C23: after every input edit and the update that follows it this.paste is
\* unset, and this.paste becomes set by a paste event only: an edit that no
\* new paste event precedes is not taken for a paste.
C23_MarkerIsSpent ==
    /\ [](last.kind = "input" => ~truthy(paste))
    /\ [][(~truthy(paste) /\ truthy(paste')) => last'.kind = "paste"]_vars

\* an edit was taken for a paste, of a date or of a text that is none, and
\* the marker is unset
C23_Witness ==
    /\ last.kind = "input" /\ last.pasted
    /\ dateValue = null
    /\ ~truthy(paste)

C23_WitnessDate ==
    /\ last.kind = "input" /\ last.pasted
    /\ dateValue # null
    /\ ~truthy(paste)

(***************************************************************************)
(* The paste that the free-form parser does not take                       *)
(***************************************************************************)
\* the last event is an input edit that came with this.paste set, and the
\* free-form parser did not take its text, which is not empty
FailedPaste == PasteEdit /\ ~last.freeform /\ value # <<>>

\* C25 (as claimed): after an input edit with this.paste set whose text is
\* not empty and is no date for the free-form parser, state.invalid is true
\* and state.dateValue is null, whatever the text is.
C25_FailedPasteIsInvalid == FailedPaste => (invalid /\ dateValue = null)

\* C25 (amended): after such an edit the text is in the buffer as pasted;
\* state.invalid is true and state.dateValue is null unless the text has at
\* most 11 characters and parse reads a valid date of props.format in it, in
\* which case state.invalid is false and state.dateValue is that date.  In
\* both cases this.paste is falsy and onPaste is not called.
C25_FailedPasteIsParsed ==
    FailedPaste =>
        /\ ~truthy(paste) /\ ~CallsOnPaste
        /\ IF Len(value) <= 11 /\ BufferParses
           THEN /\ ~invalid /\ dateValue # null
                /\ LET result == parse(value, format, localTimezone, initialValue)
                   IN  /\ dateValue.year = result.year
                       /\ dateValue.month = result.month - 1
                       /\ dateValue.date = result.date
           ELSE invalid /\ dateValue = null

\* a failed paste that leaves the flag true and no date
C25_Witness == FailedPaste /\ invalid /\ dateValue = null /\ Len(value) <= 11

\* a failed paste whose text parse reads as a date
C25_WitnessParsed == FailedPaste /\ ~invalid /\ dateValue # null

(***************************************************************************)
(* The separator after the second digit                                    *)
(***************************************************************************)
\* the number that the last key makes with the digit in front of it
TwoDigits == 10 * DigitVal(probe.before[Len(probe.before)]) + DigitVal(probe.key)

\* the last key was the second digit of a month or day segment that stands
\* at the position the format gives it, and the formatter has put the
\* separator after it
SecondDigitCompleted ==
    /\ probe.op = "key"
    /\ IsDigit(probe.key)
    /\ Len(probe.before) > 0
    /\ IsDigit(probe.before[Len(probe.before)])
    /\ SegmentIndex(probe.before) <= 2
    /\ Len(probe.before) = SegmentOffset(format, SegmentIndex(probe.before)) + 1
    /\ SegmentKind(format, SegmentIndex(probe.before)) \in {"month", "day"}
    /\ value = probe.before \o <<probe.key, "/">>

\* C30 (as claimed): whenever the formatter puts the separator after the
\* second digit of a month or day segment, the two digits are a month of
\* 1..12 or a day of 1..31; "00" is never completed.
C30_CompletedSegmentInRange ==
    SecondDigitCompleted =>
        IF SegmentKind(format, SegmentIndex(probe.before)) = "month"
        THEN TwoDigits \in 1..12
        ELSE TwoDigits \in 1..31

\* what the code does instead: the two digits are at most 12, or 31, and
\* may be 00
C30_CompletedSegmentAtMost ==
    SecondDigitCompleted =>
        IF SegmentKind(format, SegmentIndex(probe.before)) = "month"
        THEN TwoDigits \in 0..12
        ELSE TwoDigits \in 0..31

\* "00" with the separator after it
C30_ZeroCompleted == SecondDigitCompleted /\ TwoDigits = 0

(***************************************************************************)
(* Additions at any place of the text.  probe holds the text of the input  *)
(* event (raw), the buffer and the flag before it, whether this.paste was   *)
(* set, the text that the classifier left (newValue at line 539) and the   *)
(* reference date before the event.                                        *)
(***************************************************************************)
\* the longest buffer that a character is put into
MaxEditLen == 3

EditChars == {"1", "4"}

\* the written-out date without its last character
TextMarchCut == substr0(TextMarch3, Len(TextMarch3) - 1)

\* a text of 12 characters with three numbers in it
TextZeros == <<"0", "0", "4", "/", "0", "3", "0", "/", "2", "0", "2", "4">>

\* the date in digits without its last character
TextAprilCut == substr0(TextApril30, Len(TextApril30) - 1)

\* the texts put into the input as a whole
EditTexts == {TextApril30, TextAprilCut, TextMarchCut, TextMar3, TextZeros}

\* the texts of more than MaxEditLen characters that a character is put into
EditStarts == EditTexts \cup {Append(TextApril30, "1")}

InitEdit ==
    /\ ControlIsMounted
    /\ seed = SeedNone
    /\ format \in {MMDDYYYY, DDMMYYYY, YYYYMMDD}
    /\ localTimezone = TRUE
    /\ hasOnPaste = FALSE
    /\ LET newState == getInitialState(seed, format, localTimezone)
       IN  /\ value = newState.value
           /\ invalid = newState.invalid
           /\ initialValue = newState.initialValue
           /\ dateValue = newState.dateValue
           /\ error = newState.invalid
    /\ visible = FALSE
    /\ paste = pasteFalse
    /\ notes = <<>>
    /\ last = [kind |-> "constructor", pasted |-> FALSE, changed |-> FALSE,
               freeform |-> FALSE, long |-> FALSE]
    /\ probe = [op |-> "none"]

\* the input event with event.target.value = raw, kept in probe
EditTo(raw) ==
    \E c \in {classify(raw, State)} :
    \E r \in {parseBuffer(c, State)} :
        /\ value' = r.value
        /\ invalid' = r.invalid
        /\ error' = r.error
        /\ dateValue' = r.dateValue
        /\ initialValue' = r.initialValue
        /\ Settle(r.value, r.dateValue, r.paste)
        /\ last' = Event("input", r.value # value, FALSE)
        /\ probe' = [op |-> "edit", raw |-> raw, before |-> value,
                     wasInvalid |-> invalid, pasted |-> truthy(paste),
                     classified |-> c.newValue, reference |-> initialValue]
        /\ UNCHANGED <<visible, seed, format, localTimezone, hasOnPaste,
                       listeners, lifecycle>>

\* the user types a character at the caret, which stands after i characters
InsertAt ==
    \E c \in EditChars :
    \E i \in 0..Len(value) :
        /\ Len(value) <= MaxEditLen \/ value \in EditStarts
        /\ EditTo(substr0(value, i) \o <<c>> \o SubSeq(value, i + 1, Len(value)))

\* the user puts a longer text in the place of the whole text
EditText ==
    \E t \in EditTexts :
        /\ Len(t) > Len(value)
        /\ EditTo(t)

\* the user empties the input
EditClear ==
    /\ Len(value) > 1
    /\ EditTo(<<>>)

\* onPaste(event)
EditPaste ==
    /\ ~truthy(paste)
    /\ paste' = pasteTrue
    /\ notes' = <<>>
    /\ last' = Event("paste", FALSE, FALSE)
    /\ probe' = [op |-> "paste"]
    /\ UNCHANGED <<value, dateValue, initialValue, visible, invalid, error,
                   seed, format, localTimezone, hasOnPaste, listeners, lifecycle>>

\* onSelect(newValue): a date is chosen in the calendar
EditSelect ==
    \E d \in SelectDates :
        LET newValue == formatDate(d, format, localTimezone)
            newDate == fromDate(localTimezone, d)
        IN  /\ value' = newValue
            /\ error' = FALSE
            /\ visible' = FALSE
            /\ dateValue' = newDate
            /\ Settle(newValue, newDate, paste)
            /\ last' = Event("select", newValue # value, FALSE)
            /\ probe' = [op |-> "select", reference |-> initialValue]
            /\ UNCHANGED <<initialValue, invalid, seed, format, localTimezone,
                           hasOnPaste, listeners, lifecycle>>

NextEdit == InsertAt \/ EditText \/ EditClear \/ EditPaste \/ EditSelect

SpecEdit == InitEdit /\ [][NextEdit]_vars

\* the last event is an addition without a paste that leaves at most 10
\* characters
ShortAddition ==
    /\ probe.op = "edit" /\ ~probe.pasted
    /\ Len(probe.raw) > Len(probe.before)
    /\ Len(probe.raw) <= FullLen

\* the text of the event without its last character is the buffer before it
AppendedAtEnd == substr0(probe.raw, Len(probe.raw) - 1) = probe.before

\* C26 (as claimed): an addition of at most 10 characters that is not the
\* buffer before it and one character more leaves the text of the event in
\* the buffer as it is, and state.invalid false exactly if parse reads a
\* valid date in it.
C26_MidEditIsLiteral ==
    (ShortAddition /\ ~AppendedAtEnd) =>
        /\ value = probe.raw
        /\ invalid <=> ~BufferParses

\* the last event put one character at the end of the buffer while
\* state.invalid was true
InvalidAppend ==
    probe.op = "edit" /\ ~probe.pasted /\ probe.wasInvalid /\ AppendedAtEnd

\* C27: while state.invalid is true and no paste is under way, a character
\* put at the end of the buffer leaves the text of the event in the buffer
\* as it is, if that has at most 10 characters; a text of more than 10
\* characters is not reverted to the buffer before it: it stays as it is, or,
\* if it has more than 11 characters and is a date for the free-form parser,
\* becomes that date in props.format.
C27_InvalidAppendIsLiteral ==
    /\ (InvalidAppend /\ Len(probe.raw) <= FullLen) => value = probe.raw
    /\ (probe.op = "edit" /\ ~probe.pasted /\ probe.wasInvalid
           /\ Len(probe.raw) > FullLen) =>
           /\ value # probe.before
           /\ IF Len(probe.raw) > 11 /\ fromString(localTimezone, probe.raw) # null
              THEN value = formatDate(fromString(localTimezone, probe.raw), format,
                                      localTimezone)
              ELSE value = probe.raw

\* a character at the end that the formatter would have padded or refused,
\* taken as it is
C27_Witness ==
    /\ InvalidAppend /\ Len(probe.raw) <= FullLen
    /\ handleTyping(probe.raw, format, probe.before) # probe.raw
    /\ value = probe.raw

\* an eleventh character taken while state.invalid is true
C27_WitnessLong ==
    /\ InvalidAppend /\ Len(probe.raw) = FullLen + 1
    /\ value = probe.raw

\* a long text that becomes a date while state.invalid is true
C27_WitnessDate ==
    /\ InvalidAppend /\ Len(probe.raw) > 11
    /\ value # probe.raw /\ ~invalid /\ dateValue # null

\* the date that the free-form parser reads in the text the classifier left
ClassifiedDate == fromString(localTimezone, probe.classified)

\* C28: after an edit whose text after classification has more than 11
\* characters, parse is not asked: if the free-form parser takes the text,
\* the buffer is its date in props.format, state.dateValue and
\* state.initialValue are that date and state.invalid is false; if not, the
\* text stays, state.dateValue is null and state.invalid is true.  A text of
\* at most 11 characters stays in the buffer and has a date exactly if parse
\* reads a valid one in it, whatever the free-form parser makes of it.
C28_LongBufferOverride ==
    probe.op = "edit" =>
        IF Len(probe.classified) > 11
        THEN IF ClassifiedDate # null
             THEN /\ value = formatDate(ClassifiedDate, format, localTimezone)
                  /\ dateValue = ClassifiedDate
                  /\ initialValue = ClassifiedDate
                  /\ ~invalid
             ELSE /\ value = probe.classified
                  /\ dateValue = null
                  /\ invalid
        ELSE /\ value = probe.classified
             /\ dateValue # null <=> BufferParses
             /\ dateValue # null => ~invalid

\* a text of 12 characters in which parse would read a date, left to the
\* free-form parser, which refuses it
C28_Witness ==
    /\ probe.op = "edit" /\ Len(probe.classified) > 11
    /\ BufferParses
    /\ dateValue = null /\ invalid

\* a long text that the free-form parser takes
C28_WitnessDate ==
    /\ probe.op = "edit" /\ Len(probe.classified) > 11
    /\ ClassifiedDate # null /\ dateValue = ClassifiedDate

\* a text of 10 characters that the free-form parser would take, left to
\* parse, which refuses it
C28_WitnessShort ==
    /\ probe.op = "edit" /\ ~probe.pasted /\ Len(probe.classified) <= 11
    /\ ClassifiedDate # null
    /\ dateValue = null

\* a text of 11 characters in which parse reads a date
C28_WitnessEleven ==
    /\ probe.op = "edit" /\ Len(probe.classified) = 11
    /\ dateValue # null

(***************************************************************************)
(* The reference date                                                      *)
(***************************************************************************)
\* the last event changed the buffer and left a date in state.dateValue
Established == probe.op \in {"edit", "select"} /\ last.changed /\ dateValue # null

SameDay(a, b) == a.year = b.year /\ a.month = b.month /\ a.date = b.date

SameTimeOfDay(a, b) ==
    a.hours = b.hours /\ a.minutes = b.minutes /\ a.seconds = b.seconds

\* the date of the last event came from the free-form parser: from a paste,
\* or from a text of more than 11 characters
FromFreeForm ==
    /\ probe.op = "edit"
    /\ \/ probe.pasted /\ fromString(localTimezone, probe.raw) # null
       \/ Len(probe.classified) > 11 /\ ClassifiedDate # null

\* C29 (as claimed): after every edit that leaves a new date in
\* state.dateValue (typed, pasted, read from a long buffer or chosen in the
\* calendar), state.initialValue is the same day as state.dateValue.
C29_ReferenceFollowsDate == Established => SameDay(initialValue, dateValue)

\* C29 (amended): after a paste that the free-form parser takes and after
\* the long-buffer override, state.initialValue is the new date.  After an
\* edit whose date parse read from the buffer, state.initialValue is what it
\* was before and the new date has its time of day; after a choice in the
\* calendar state.initialValue is what it was before.
C29_ReferenceFollowsFreeForm ==
    Established =>
        IF FromFreeForm
        THEN initialValue = dateValue
        ELSE /\ initialValue = probe.reference
             /\ probe.op = "edit" => SameTimeOfDay(dateValue, initialValue)

\* a date from the free-form parser that became the reference date, which
\* was another day before
C29_Witness ==
    /\ Established /\ FromFreeForm
    /\ initialValue = dateValue
    /\ ~SameDay(probe.reference, dateValue)

\* a date read by parse, on another day than the reference date
C29_WitnessTyped ==
    /\ Established /\ probe.op = "edit" /\ ~FromFreeForm
    /\ ~SameDay(initialValue, dateValue)

\* the last digit of a date typed at the end of the buffer: the date is on
\* another day than the reference date
C29_WitnessAppended ==
    /\ Established /\ probe.op = "edit" /\ ~probe.pasted /\ ~probe.wasInvalid
    /\ AppendedAtEnd /\ Len(value) = FullLen
    /\ ~SameDay(initialValue, dateValue)

\* a date chosen in the calendar, of another day and time than the
\* reference date
C29_WitnessSelect ==
    /\ Established /\ probe.op = "select"
    /\ ~SameDay(initialValue, dateValue)
    /\ ~SameTimeOfDay(initialValue, dateValue)

(***************************************************************************)
(* The flag and the date after a choice in the calendar                    *)
(***************************************************************************)
\* C31 (as claimed): in every reachable state with a date in state.dateValue
\* state.invalid is false, also after a choice in the calendar made while
\* the buffer was invalid.
C31_DateMeansValid == dateValue # null => ~invalid

\* a date chosen in the calendar while state.invalid was true
C31_SelectedWhileInvalid == last.kind = "select" /\ dateValue # null /\ invalid

(***************************************************************************)
(* The flag stays                                                          *)
(***************************************************************************)
\* C33: a step that takes state.invalid from true to false is an input edit
\* that leaves the buffer empty or a buffer in which parse reads a valid
\* date, or a change of the seed; no other event, and no input edit that
\* leaves a text that is not a date, clears the flag.
C33_InvalidIsSticky ==
    [][(invalid /\ ~invalid') =>
           \/ last'.kind = "props"
           \/ /\ last'.kind = "input"
              /\ \/ value' = <<>>
                 \/ parse(value', format, localTimezone, initialValue').valid]_vars

\* an input edit without a paste has left more than 10 characters in the
\* buffer: state.invalid was true before it, and it is true after it
C33_Witness ==
    /\ last.kind = "input" /\ ~last.pasted /\ last.changed
    /\ Len(value) > FullLen
    /\ invalid /\ ~BufferParses

\* a paste that the free-form parser takes leaves a date and the flag false
C33_ClearedByDate ==
    /\ last.kind = "input" /\ last.pasted /\ last.freeform
    /\ ~invalid /\ BufferParses

(***************************************************************************)
(* The choice in the calendar                                              *)
(***************************************************************************)
\* the state after onSelect(d), but for the callbacks
SelectedState(d) ==
    /\ value = formatDate(d, format, localTimezone)
    /\ dateValue = fromDate(localTimezone, d)
    /\ ~error
    /\ ~visible

\* C34 (as claimed): after onSelect(d) from any state the buffer is d in
\* props.format, state.dateValue is d, state.error is false and the dropdown
\* is hidden; onChange is called once with the UTC string of d if the text
\* of the buffer changed, and nothing is called if it did not.
C34_SelectNotifiesOnChange ==
    last.kind = "select" =>
        \E d \in SelectDates :
            /\ SelectedState(d)
            /\ notes = IF last.changed
                       THEN <<onChangeCall(toUTCString(localTimezone,
                                                       fromDate(localTimezone, d)))>>
                       ELSE <<>>

\* what the code does: the same, but that the call is also made for an
\* unchanged text when this.paste is set
C34_SelectNotifiesOnChangeOrPaste ==
    [][last'.kind = "select" =>
           \E d \in SelectDates :
               /\ SelectedState(d)'
               /\ notes' = IF last'.changed \/ truthy(paste)
                           THEN <<onChangeCall(toUTCString(localTimezone,
                                                           fromDate(localTimezone, d)))>>
                           ELSE <<>>]_vars

\* the same date chosen again after a paste event: the text did not change
\* and onChange is called
C34_UnchangedIsNotified ==
    last.kind = "select" /\ ~last.changed /\ notes # <<>>

(***************************************************************************)
(* ComboInput.onInputChange on its own.  probe holds the props of the      *)
(* ComboInput (options, value, the optionFilter and optionSelect given)    *)
(* and the text typed; notes holds the calls of props.onChange.            *)
(***************************************************************************)
\* the longest list of options
MaxOptions == 2

\* a value of an option that is not a string: an object, written as a
\* sequence that is the text of no string
ObjectValue == <<"{object}">>

IsStringValue(v) == v # ObjectValue

OptionValues == {<<"a">>, <<"a", "b">>, ObjectValue}

FormOptions ==
    {[value |-> v, hidden |-> h, disabled |-> d] :
         v \in OptionValues, h \in BOOLEAN, d \in {FALSE}}
    \cup {[value |-> <<"a">>, hidden |-> FALSE, disabled |-> TRUE]}

OptionLists == UNION {[1..n -> FormOptions] : n \in 0..MaxOptions}

\* the texts typed into the input, and the values of props.value
TypedTexts == {<<>>, <<"a">>, <<"a", "b">>, <<"b">>}

\* defaultMap, lines 121-127
defaultMap(option) == IF IsStringValue(option.value) THEN option.value ELSE <<>>

\* defaultFilter, line 129
defaultFilter(newValue, option) == ~option.hidden

\* defaultSelect, line 131, on the mapped option (line 194)
defaultSelect(newValue, option) == defaultMap(option) = newValue

\* an optionFilter of the host: autocomplete, the options that begin with
\* the text
prefixFilter(newValue, option) ==
    /\ Len(newValue) <= Len(defaultMap(option))
    /\ substr0(defaultMap(option), Len(newValue)) = newValue

\* an optionSelect of the host: the options that begin with the letter of
\* the text
letterSelect(newValue, option) ==
    /\ Len(newValue) > 0 /\ Len(defaultMap(option)) > 0
    /\ newValue[1] = defaultMap(option)[1]

\* this.optionFilter and this.optionSelect, lines 191-194
optionFilter(p, newValue, option) ==
    IF p.filter = "prefix" THEN prefixFilter(newValue, option)
    ELSE defaultFilter(newValue, option)

optionSelect(p, newValue, option) ==
    IF p.select = "letter" THEN letterSelect(newValue, option)
    ELSE defaultSelect(newValue, option)

\* getValue(), lines 322-338, for a props.value that is a string
getValue(p) == p.value

\* getVisibleOptions that shows every option
getVisibleOptions_all(p) == p.options

\* getVisibleOptions(), lines 340-352, with getDisabled = true
getVisibleOptions(p) ==
    LET byFilter(option) == optionFilter(p, getValue(p), option)
        notHidden(option) == ~option.hidden
    IN  IF IsStringValue(p.value)
        THEN SelectSeq(p.options, byFilter)
        ELSE SelectSeq(p.options, notHidden)

\* onInputChange(event), lines 354-363: the calls of props.onChange
onInputChange(newValue, p) ==
    LET selects(option) == optionSelect(p, newValue, option)
        result == SelectSeq(getVisibleOptions(p), selects)
    IN  IF Len(result) > 0
        THEN <<[callback |-> "onChange", arg |-> result[1].value]>>
        ELSE <<[callback |-> "onChange", arg |-> newValue]>>

InitCombo ==
    /\ ControlIsMounted
    /\ seed = SeedNone
    /\ format = MMDDYYYY
    /\ localTimezone = TRUE
    /\ hasOnPaste = FALSE
    /\ LET newState == getInitialState(seed, format, localTimezone)
       IN  /\ value = newState.value
           /\ invalid = newState.invalid
           /\ initialValue = newState.initialValue
           /\ dateValue = newState.dateValue
           /\ error = newState.invalid
    /\ visible = FALSE
    /\ paste = pasteFalse
    /\ notes = <<>>
    /\ last = [kind |-> "constructor", pasted |-> FALSE, changed |-> FALSE,
               freeform |-> FALSE, long |-> FALSE]
    /\ \E options \in OptionLists :
       \E v \in TypedTexts \cup {ObjectValue} :
       \E f \in {"default", "prefix"} :
       \E sel \in {"default", "letter"} :
           probe = [op |-> "props", options |-> options, value |-> v,
                    filter |-> f, select |-> sel]

\* the input event of the ComboInput with event.target.value = typed
InputChange ==
    \E typed \in TypedTexts :
        /\ notes' = onInputChange(typed, probe)
        /\ probe' = [op |-> "change", options |-> probe.options,
                     value |-> probe.value, filter |-> probe.filter,
                     select |-> probe.select, typed |-> typed]
        /\ UNCHANGED <<value, dateValue, initialValue, visible, invalid, error, paste,
                       seed, format, localTimezone, hasOnPaste, last,
                       listeners, lifecycle>>

NextCombo == InputChange

SpecCombo == InitCombo /\ [][NextCombo]_vars

\* the option at index i is shown: it passes the filter of the host for the
\* current value, or is not hidden when the current value is no string
IsShown(i) ==
    IF IsStringValue(probe.value)
    THEN optionFilter(probe, probe.value, probe.options[i])
    ELSE ~probe.options[i].hidden

\* the indexes of the shown options that optionSelect takes for the text
Matches ==
    {i \in 1..Len(probe.options) :
         IsShown(i) /\ optionSelect(probe, probe.typed, probe.options[i])}

FirstMatch == CHOOSE i \in Matches : \A j \in Matches : i <= j

\* C24: onInputChange calls onChange once: with the value of the first shown
\* option that optionSelect takes for the typed text, if there is one, and
\* with the typed text otherwise.
C24_FirstMatchOrText ==
    probe.op = "change" =>
        /\ Len(notes) = 1
        /\ notes[1].callback = "onChange"
        /\ notes[1].arg = IF Matches # {} THEN probe.options[FirstMatch].value
                          ELSE probe.typed

\* two shown options of different values match, and the first one is taken
C24_Witness ==
    /\ probe.op = "change"
    /\ \E i, j \in Matches : i < j /\ probe.options[i].value # probe.options[j].value
    /\ notes[1].arg = probe.options[FirstMatch].value

\* no shown option matches, though a hidden one does
C24_NoMatch ==
    /\ probe.op = "change"
    /\ Matches = {}
    /\ \E i \in 1..Len(probe.options) :
           optionSelect(probe, probe.typed, probe.options[i])
    /\ notes[1].arg = probe.typed

(***************************************************************************)
(* GenericManagementList.render on its own.  probe holds the props of the  *)
(* list (rows, columns, selectLabel, whether rows can be selected) and,    *)
(* after render, the content of every cell and the label of every          *)
(* checkbox; notes holds the calls of console.error.                       *)
(***************************************************************************)
\* the longest list of rows and of columns
MaxRows == 2

MaxColumns == 2

\* what a row holds under the key "a": a string, the empty string, an
\* instance of React.Component or of React.PureComponent, a number, a plain
\* object, or nothing
StringNode(text) == [k |-> "string", s |-> text]

\* the value undefined, of a key that the row does not have
NoValue == [k |-> "undefined"]

CellValues ==
    {StringNode("name"), StringNode(""), [k |-> "Component"], [k |-> "PureComponent"],
     [k |-> "number"], [k |-> "object"], NoValue}

ListRows == {[a |-> v] : v \in CellValues}

RowLists == UNION {[1..n -> ListRows] : n \in 0..MaxRows}

\* mapColumn and selectLabel: a key of the row, or a callback, which here
\* hands out what the row holds under a key
Mappings ==
    {[k |-> "key", key |-> "a"], [k |-> "key", key |-> "b"],
     [k |-> "callback", key |-> "a"]}

ColumnLists == UNION {[1..n -> Mappings] : n \in 1..MaxColumns}

\* row[key]
RowAt(row, key) == IF key = "a" THEN row.a ELSE NoValue

\* what the mapping yields for the row
Yield(mapping, row) == RowAt(row, mapping.key)

\* the test of lines 1004-1008 and 1071-1075
IsNode(colValue) == colValue.k \in {"string", "Component", "PureComponent"}

columnError == [callback |-> "console.error", arg |-> "mapColumn"]

labelError == [callback |-> "console.error", arg |-> "selectLabel"]

\* lines 998-1013: the content of the cell, and whether console.error is called
cellContent(mapping, row) ==
    IF mapping.k = "callback"
    THEN [content |-> Yield(mapping, row), logged |-> FALSE]
    ELSE LET colValue == RowAt(row, mapping.key)
         IN  IF IsNode(colValue) THEN [content |-> colValue, logged |-> FALSE]
             ELSE [content |-> StringNode(""), logged |-> TRUE]

\* lines 1066-1078: the label of the checkbox of the row
labelContent(mapping, row) ==
    IF mapping.k = "callback"
    THEN [content |-> Yield(mapping, row), logged |-> FALSE]
    ELSE LET colValue == RowAt(row, mapping.key)
         IN  IF IsNode(colValue) THEN [content |-> colValue, logged |-> FALSE]
             ELSE [content |-> NoValue, logged |-> TRUE]

\* the calls of console.error of render, in the order of the code: column by
\* column and row by row, then the labels row by row
RECURSIVE CellErrors(_, _, _)
CellErrors(p, col, row) ==
    IF col > Len(p.columns) THEN <<>>
    ELSE IF row > Len(p.rows) THEN CellErrors(p, col + 1, 1)
    ELSE (IF cellContent(p.columns[col], p.rows[row]).logged THEN <<columnError>>
          ELSE <<>>) \o CellErrors(p, col, row + 1)

RECURSIVE LabelErrors(_, _)
LabelErrors(p, row) ==
    IF row > Len(p.rows) THEN <<>>
    ELSE (IF labelContent(p.selectLabel, p.rows[row]).logged THEN <<labelError>>
          ELSE <<>>) \o LabelErrors(p, row + 1)

InitList ==
    /\ ControlIsMounted
    /\ seed = SeedNone
    /\ format = MMDDYYYY
    /\ localTimezone = TRUE
    /\ hasOnPaste = FALSE
    /\ LET newState == getInitialState(seed, format, localTimezone)
       IN  /\ value = newState.value
           /\ invalid = newState.invalid
           /\ initialValue = newState.initialValue
           /\ dateValue = newState.dateValue
           /\ error = newState.invalid
    /\ visible = FALSE
    /\ paste = pasteFalse
    /\ notes = <<>>
    /\ last = [kind |-> "constructor", pasted |-> FALSE, changed |-> FALSE,
               freeform |-> FALSE, long |-> FALSE]
    /\ \E rows \in RowLists :
       \E columns \in ColumnLists :
       \E selectLabel \in Mappings :
       \E selectable \in BOOLEAN :
           probe = [op |-> "props", rows |-> rows, columns |-> columns,
                    selectLabel |-> selectLabel, selectable |-> selectable]

\* render() of the GenericManagementList
RenderList ==
    /\ probe.op = "props"
    /\ notes' = CellErrors(probe, 1, 1)
                \o (IF probe.selectable THEN LabelErrors(probe, 1) ELSE <<>>)
    /\ probe' = [op |-> "render", rows |-> probe.rows, columns |-> probe.columns,
                 selectLabel |-> probe.selectLabel, selectable |-> probe.selectable,
                 cells |-> [col \in 1..Len(probe.columns) |->
                               [row \in 1..Len(probe.rows) |->
                                   cellContent(probe.columns[col],
                                               probe.rows[row]).content]],
                 labels |-> IF probe.selectable
                            THEN [row \in 1..Len(probe.rows) |->
                                     labelContent(probe.selectLabel,
                                                  probe.rows[row]).content]
                            ELSE <<>>]
    /\ UNCHANGED <<value, dateValue, initialValue, visible, invalid, error, paste,
                   seed, format, localTimezone, hasOnPaste, last,
                   listeners, lifecycle>>

NextList == RenderList

SpecList == InitList /\ [][NextList]_vars

\* nothing is shown for the content
IsBlank(content) == content = StringNode("") \/ content = NoValue

\* the cells for which the mapping yields what is neither a string nor a
\* component
BadCells ==
    {<<col, row>> \in (1..Len(probe.columns)) \X (1..Len(probe.rows)) :
         ~IsNode(Yield(probe.columns[col], probe.rows[row]))}

BadLabels ==
    IF probe.selectable
    THEN {row \in 1..Len(probe.rows) : ~IsNode(Yield(probe.selectLabel, probe.rows[row]))}
    ELSE {}

Count(call) == Cardinality({i \in 1..Len(notes) : notes[i] = call})

\* C32 (as claimed): after render, every cell whose mapping (a key of the row
\* or a callback) yields what is neither a string nor a component is blank
\* and console.error was called for it; the same for the labels of the
\* checkboxes.
C32_BadValueIsBlankAndLogged ==
    probe.op = "render" =>
        /\ \A c \in BadCells : IsBlank(probe.cells[c[1]][c[2]])
        /\ Count(columnError) = Cardinality(BadCells)
        /\ \A row \in BadLabels : IsBlank(probe.labels[row])
        /\ Count(labelError) = Cardinality(BadLabels)

\* what the code does: the same for the mappings that are keys of the row
C32_BadKeyIsBlankAndLogged ==
    probe.op = "render" =>
        /\ \A c \in BadCells :
               probe.columns[c[1]].k = "key" => IsBlank(probe.cells[c[1]][c[2]])
        /\ Count(columnError)
               = Cardinality({c \in BadCells : probe.columns[c[1]].k = "key"})
        /\ probe.selectLabel.k = "key" =>
               /\ \A row \in BadLabels : IsBlank(probe.labels[row])
               /\ Count(labelError) = Cardinality(BadLabels)

\* a callback yields a plain object, which is put into the cell and not logged
C32_CallbackObject ==
    /\ probe.op = "render"
    /\ \E c \in BadCells :
           /\ probe.columns[c[1]].k = "callback"
           /\ probe.cells[c[1]][c[2]] = [k |-> "object"]
    /\ notes = <<>>

(***************************************************************************)
(* The keyboard of the ComboInput.  probe holds the props of the           *)
(* ComboInput (options, value, the optionFilter given), its state (visible,*)
(* hovered) and the place of onKeyDown in the loop of getNextIndex (pc,    *)
(* index, curIndex, increment); notes holds the calls of props.onChange of *)
(* the last event.                                                         *)
(***************************************************************************)
\* the longest list of options of the ComboInput with a keyboard
MaxKeyOptions == 3

\* the value of the option that stands at place i of props.options
OptionTexts == <<<<"a">>, <<"a", "b">>, <<"b">>, <<"b", "a">>>>

\* the options: id tells the objects apart, as === does
KeyOptionList(n, hiddenAt, disabledAt) ==
    [i \in 1..n |-> [value |-> OptionTexts[i], hidden |-> i \in hiddenAt,
                     disabled |-> i \in disabledAt, id |-> i]]

KeyOptionLists ==
    UNION {{KeyOptionList(n, h, d) : h \in SUBSET (1..n), d \in SUBSET (1..n)} :
               n \in 0..MaxKeyOptions}

\* state.hovered when it is null, or undefined (options[-1])
NoOption == 0

\* options[i], with i counted from 0: the option is there
HasIndex(options, i) == i >= 0 /\ i < Len(options)

\* options.indexOf(the option of this id), counted from 0
IndexOfId(options, id) ==
    IF \E i \in 1..Len(options) : options[i].id = id
    THEN (CHOOSE i \in 1..Len(options) : options[i].id = id) - 1
    ELSE 0 - 1

\* options.map(option => option.value).indexOf(text), counted from 0
IndexOfValue(options, text) ==
    IF \E i \in 1..Len(options) : options[i].value = text
    THEN (CHOOSE i \in 1..Len(options) :
              /\ options[i].value = text
              /\ \A j \in 1..(i - 1) : options[j].value # text) - 1
    ELSE 0 - 1

\* getDropdownIndex that does not look at state.hovered
getDropdownIndex_selectedOnly(options, p) ==
    IF p.value = <<>> THEN 0 - 1
    ELSE IndexOfValue(options, p.value)

\* getDropdownIndex(options), lines 251-259
getDropdownIndex(options, p) ==
    IF p.hovered # NoOption THEN IndexOfId(options, p.hovered)
    ELSE IF p.value = <<>> THEN 0 - 1
    ELSE IndexOfValue(options, p.value)

\* the id of options[index], NoOption where there is no such option
OptionIdAt(options, index) ==
    IF HasIndex(options, index) THEN options[index + 1].id ELSE NoOption

ComboProps(options, text, f) ==
    [op |-> "props", options |-> options, value |-> text, filter |-> f,
     select |-> "default", visible |-> FALSE, hovered |-> NoOption,
     pc |-> "idle", index |-> 0, curIndex |-> 0, increment |-> 0,
     threw |-> FALSE]

InitKeys ==
    /\ ControlIsMounted
    /\ seed = SeedNone
    /\ format = MMDDYYYY
    /\ localTimezone = TRUE
    /\ hasOnPaste = FALSE
    /\ LET newState == getInitialState(seed, format, localTimezone)
       IN  /\ value = newState.value
           /\ invalid = newState.invalid
           /\ initialValue = newState.initialValue
           /\ dateValue = newState.dateValue
           /\ error = newState.invalid
    /\ visible = FALSE
    /\ paste = pasteFalse
    /\ notes = <<>>
    /\ last = [kind |-> "constructor", pasted |-> FALSE, changed |-> FALSE,
               freeform |-> FALSE, long |-> FALSE]
    /\ \E options \in KeyOptionLists :
       \E text \in {<<>>, <<"a", "b">>, ObjectValue} :
       \E f \in {"default", "prefix"} :
           probe = ComboProps(options, text, f)

KeysUnchanged ==
    UNCHANGED <<value, dateValue, initialValue, visible, invalid, error, paste,
                seed, format, localTimezone, hasOnPaste, last, listeners, lifecycle>>

\* onKeyDown with keyCode.down (increment 1) or keyCode.up (increment -1),
\* lines 296-306, up to the loop of getNextIndex (lines 261-273)
KeyArrow ==
    \E increment \in {1, 0 - 1} :
    \E options \in {getVisibleOptions(probe)} :
    \E index \in {getDropdownIndex(options, probe)} :
        /\ probe.pc = "idle"
        /\ probe' = [probe EXCEPT
                       !.op = "arrow", !.pc = "loop", !.threw = FALSE,
                       !.index = index, !.increment = increment,
                       !.curIndex = IF index < 0
                                    THEN (IF increment < 0 THEN Len(options) ELSE 0 - 1)
                                    ELSE index]
        /\ notes' = <<>>
        /\ KeysUnchanged

\* return of getNextIndex and the setState of onKeyDown (lines 300, 305)
ArrowReturns(options, index) ==
    [probe EXCEPT !.pc = "idle", !.visible = TRUE,
                  !.hovered = OptionIdAt(options, index)]

\* one turn of the loop of getNextIndex, lines 274-285; reading .disabled of
\* an option that is not there throws a TypeError, which ends onKeyDown
getNextIndexTurn ==
    \E options \in {getVisibleOptions(probe)} :
    \E moved \in {probe.curIndex + probe.increment} :
        /\ probe.pc = "loop"
        /\ probe' =
             IF probe.index = moved THEN ArrowReturns(options, probe.index)
             ELSE LET curIndex ==
                          IF moved >= Len(options) /\ probe.increment > 0 THEN 0
                          ELSE IF moved <= 0 - 1 /\ probe.increment < 0
                          THEN Len(options) - 1
                          ELSE moved
                  IN  IF ~HasIndex(options, curIndex)
                      THEN [probe EXCEPT !.pc = "idle", !.threw = TRUE]
                      ELSE IF options[curIndex + 1].disabled
                              \/ options[curIndex + 1].hidden
                      THEN [probe EXCEPT !.curIndex = curIndex]
                      ELSE ArrowReturns(options, curIndex)
        /\ notes' = <<>>
        /\ KeysUnchanged

\* onKeyDown with keyCode.enter, lines 307-314; reading .value of a hovered
\* that is null throws a TypeError, which ends onKeyDown
KeyEnter ==
    /\ probe.pc = "idle"
    /\ IF probe.visible
       THEN IF probe.hovered = NoOption
            THEN /\ probe' = [probe EXCEPT !.op = "enter", !.threw = TRUE]
                 /\ notes' = <<>>
            ELSE /\ probe' = [probe EXCEPT !.op = "enter", !.threw = FALSE,
                                           !.visible = FALSE, !.hovered = NoOption]
                 /\ notes' = <<[callback |-> "onChange",
                                arg |-> probe.options[probe.hovered].value]>>
       ELSE /\ probe' = [probe EXCEPT !.op = "enter", !.threw = FALSE,
                                      !.visible = TRUE]
            /\ notes' = <<>>
    /\ KeysUnchanged

\* onKeyDown with another key (lines 315-317) and onFocus (lines 247-249)
KeyOther ==
    /\ probe.pc = "idle"
    /\ probe' = [probe EXCEPT !.op = "show", !.threw = FALSE, !.visible = TRUE]
    /\ notes' = <<>>
    /\ KeysUnchanged

\* onMouseOver of a shown option, lines 407-409 and 416
HoverOption ==
    \E options \in {getVisibleOptions(probe)} :
    \E i \in 1..Len(options) :
        /\ probe.pc = "idle"
        /\ probe.visible
        /\ probe' = [probe EXCEPT !.op = "hover", !.threw = FALSE,
                                  !.hovered = options[i].id]
        /\ notes' = <<>>
        /\ KeysUnchanged

\* a click of the window outside the ComboInput: hideDropdown, lines 238-239
\* and 369-371
ClickOutside ==
    /\ probe.pc = "idle"
    /\ probe.visible
    /\ probe' = [probe EXCEPT !.op = "hide", !.threw = FALSE, !.visible = FALSE,
                              !.hovered = NoOption]
    /\ notes' = <<>>
    /\ KeysUnchanged

\* the texts typed into the input of the ComboInput with a keyboard
KeyTexts == {<<>>, <<"a">>, <<"a", "b">>}

\* onInputChange (lines 354-363) of a typed text; the host hands the value
\* of its onChange back as props.value
KeyInputChange ==
    \E typed \in KeyTexts :
    \E calls \in {onInputChange(typed, probe)} :
        /\ probe.pc = "idle"
        /\ probe' = [probe EXCEPT !.op = "change", !.threw = FALSE,
                                  !.value = calls[1].arg]
        /\ notes' = calls
        /\ KeysUnchanged

NextKeys ==
    \/ KeyArrow
    \/ getNextIndexTurn
    \/ KeyEnter
    \/ KeyOther
    \/ HoverOption
    \/ ClickOutside
    \/ KeyInputChange

SpecKeys == InitKeys /\ [][NextKeys]_vars

\* the loop of getNextIndex runs on while it can
SpecKeysLive == SpecKeys /\ WF_vars(getNextIndexTurn)

\* C35 (as claimed): getNextIndex terminates for every list of shown
\* options, every index and both increments: an Up or Down key that has
\* entered the loop leaves it.
C35_NextIndexTerminates == (probe.pc = "loop") ~> (probe.pc = "idle")

\* the loop is run with no option that it could stop at
C35_NoOptionToStopAt ==
    /\ probe.pc = "loop"
    /\ \A i \in 1..Len(getVisibleOptions(probe)) :
           getVisibleOptions(probe)[i].disabled \/ getVisibleOptions(probe)[i].hidden

\* an Up or Down key in an empty list has thrown
C35_EmptyListThrows ==
    probe.op = "arrow" /\ probe.threw /\ getVisibleOptions(probe) = <<>>

\* C36 (as claimed): the Enter key completes without an error in every
\* state: with the dropdown shown it calls onChange once, with the value of
\* the hovered option, hides the dropdown and clears the hover; with the
\* dropdown hidden it shows it and calls nothing.
C36_EnterCompletes ==
    probe.op = "enter" =>
        /\ ~probe.threw
        /\ \/ notes = <<>> /\ probe.visible
           \/ /\ Len(notes) = 1 /\ notes[1].callback = "onChange"
              /\ ~probe.visible /\ probe.hovered = NoOption

\* what the code does with a hovered option or a hidden dropdown
C36_EnterCompletesIfHovered ==
    (probe.op = "enter" /\ ~probe.threw) =>
        \/ notes = <<>> /\ probe.visible
        \/ /\ Len(notes) = 1 /\ notes[1].callback = "onChange"
           /\ ~probe.visible /\ probe.hovered = NoOption

\* Enter in a shown dropdown with no hovered option has thrown: nothing is
\* called and the dropdown stays
C36_EnterThrows ==
    /\ probe.op = "enter" /\ probe.threw
    /\ probe.visible /\ probe.hovered = NoOption /\ notes = <<>>

\* the option that a completed arrow key is to hover: L is the list of the
\* shown options, cur the place in it (from 1) of the hovered option, of
\* the first option of the selected value when none is hovered, 0 when
\* that option is not in the list
Stoppable(option) == ~option.disabled /\ ~option.hidden

CurrentPlace(L, p) ==
    IF p.hovered # NoOption
    THEN (IF \E i \in 1..Len(L) : L[i].id = p.hovered
          THEN CHOOSE i \in 1..Len(L) : L[i].id = p.hovered
          ELSE 0)
    ELSE IF \E i \in 1..Len(L) : L[i].value = p.value
    THEN CHOOSE i \in 1..Len(L) :
             L[i].value = p.value /\ \A j \in 1..(i - 1) : L[j].value # p.value
    ELSE 0

\* the place reached from cur by k steps down (increment 1) or up
PlaceAfter(L, cur, increment, k) ==
    IF increment > 0
    THEN ((cur + k - 1) % Len(L)) + 1
    ELSE (((IF cur = 0 THEN Len(L) ELSE cur - 1) - k + Len(L)) % Len(L)) + 1

NextStoppable(L, cur, increment) ==
    LET k == CHOOSE k \in 1..Len(L) :
                 /\ Stoppable(L[PlaceAfter(L, cur, increment, k)])
                 /\ \A j \in 1..(k - 1) :
                        ~Stoppable(L[PlaceAfter(L, cur, increment, j)])
    IN  L[PlaceAfter(L, cur, increment, k)].id

\* an arrow key completes in this step, in a list with an option that is
\* neither disabled nor hidden
ArrowCompletes ==
    /\ probe.pc = "loop" /\ probe'.pc = "idle"
    /\ \E i \in 1..Len(getVisibleOptions(probe)) :
           Stoppable(getVisibleOptions(probe)[i])

\* C37: with an option that is neither disabled nor hidden in the list
\* shown, a Down (Up) key hovers the next (previous) such option in cyclic
\* order after (before) the hovered option, or the selected one when none is
\* hovered, and shows the dropdown; the option hovered is never disabled or
\* hidden.
C37_ArrowHoversNextEnabled ==
    [][ArrowCompletes =>
           LET L == getVisibleOptions(probe)
           IN  /\ ~probe'.threw
               /\ probe'.visible
               /\ probe'.hovered =
                      NextStoppable(L, CurrentPlace(L, probe), probe.increment)
               /\ \E i \in 1..Len(L) :
                      L[i].id = probe'.hovered /\ Stoppable(L[i])]_vars

\* a Down key has come round the end of the list, past a disabled option,
\* to an option before the one that was hovered
C37_Witness ==
    /\ probe.op = "arrow" /\ probe.pc = "idle" /\ ~probe.threw
    /\ probe.increment = 1 /\ probe.index >= 1
    /\ probe.visible
    /\ LET L == getVisibleOptions(probe)
       IN  /\ HasIndex(L, probe.index)
           /\ probe.hovered # NoOption
           /\ IndexOfId(L, probe.hovered) < probe.index
           /\ \E i \in 1..Len(L) : ~Stoppable(L[i])

\* an Up key from no hovered and no selected option has hovered the last
\* option that is neither disabled nor hidden
C37_UpFromNone ==
    /\ probe.op = "arrow" /\ probe.pc = "idle" /\ ~probe.threw
    /\ probe.increment = 0 - 1 /\ probe.index = 0 - 1
    /\ probe.hovered # NoOption

(***************************************************************************)
(* The TextArea.  probe holds its props (autogrow, value), what its ref    *)
(* callbacks have left in this.ghost, the offsetHeight of the ghost        *)
(* element, the style height of the textarea (0 while it has none) and,    *)
(* of the last update, the props and the height before it.                 *)
(***************************************************************************)
\* componentDidUpdate grows the textarea above this height, line 71
GrowAbove == 52

\* the heights that the layout gives the ghost element
GhostHeights == {20, 52, 53, 80}

\* the values of the textarea
AreaValues == {<<>>, <<"a">>, <<"a", "\n">>}

\* this.ghost after a render (lines 95-103): the pre element when autogrow
\* is given; null once the pre element has been taken out of the page;
\* undefined when no pre element was ever rendered
ghostAfterRender(autogrow, ghost) ==
    IF autogrow THEN "element"
    ELSE IF ghost = "element" THEN "null"
    ELSE ghost

AreaProps(autogrow, v, h) ==
    [op |-> "mount", autogrow |-> autogrow, value |-> v,
     ghost |-> ghostAfterRender(autogrow, "undefined"), offsetHeight |-> h,
     height |-> 0, prevValue |-> v, prevHeight |-> 0, threw |-> FALSE]

InitArea ==
    /\ ControlIsMounted
    /\ seed = SeedNone
    /\ format = MMDDYYYY
    /\ localTimezone = TRUE
    /\ hasOnPaste = FALSE
    /\ LET newState == getInitialState(seed, format, localTimezone)
       IN  /\ value = newState.value
           /\ invalid = newState.invalid
           /\ initialValue = newState.initialValue
           /\ dateValue = newState.dateValue
           /\ error = newState.invalid
    /\ visible = FALSE
    /\ paste = pasteFalse
    /\ notes = <<>>
    /\ last = [kind |-> "constructor", pasted |-> FALSE, changed |-> FALSE,
               freeform |-> FALSE, long |-> FALSE]
    /\ \E autogrow \in BOOLEAN :
       \E v \in AreaValues :
       \E h \in GhostHeights :
           probe = AreaProps(autogrow, v, h)

AreaUnchanged ==
    UNCHANGED <<value, dateValue, initialValue, visible, invalid, error, paste,
                seed, format, localTimezone, hasOnPaste, last, listeners, lifecycle>>

\* componentDidUpdate(prevProps), lines 69-74, after the render of the new
\* props; reading offsetHeight of a ghost that is null or undefined throws a
\* TypeError
componentDidUpdateArea(prev, autogrow, v, h) ==
    LET ghost == ghostAfterRender(autogrow, prev.ghost)
        base == [prev EXCEPT !.op = "update", !.autogrow = autogrow,
                             !.value = v, !.ghost = ghost, !.offsetHeight = h,
                             !.prevValue = prev.value,
                             !.prevHeight = prev.height]
    IN  IF ghost # "element" THEN [base EXCEPT !.threw = TRUE]
        ELSE IF autogrow /\ prev.value # v /\ h > GrowAbove
        THEN [base EXCEPT !.threw = FALSE, !.height = h]
        ELSE [base EXCEPT !.threw = FALSE]

\* the host renders the TextArea again, with these props
AreaUpdate ==
    \E autogrow \in BOOLEAN :
    \E v \in AreaValues :
    \E h \in GhostHeights :
        /\ probe' = componentDidUpdateArea(probe, autogrow, v, h)
        /\ notes' = <<>>
        /\ AreaUnchanged

\* onChange of the textarea, line 88
AreaChange ==
    \E v \in AreaValues :
        /\ probe' = [probe EXCEPT !.op = "change", !.threw = FALSE]
        /\ notes' = <<[callback |-> "onChange", arg |-> v]>>
        /\ AreaUnchanged

NextArea ==
    \/ AreaUpdate
    \/ AreaChange

SpecArea == InitArea /\ [][NextArea]_vars

\* with autogrow on, the height is that of the ghost exactly when the value
\* has changed and the ghost is higher than 52 pixels, and else is kept
GrowsAbove52 ==
    probe.autogrow =>
        IF probe.prevValue # probe.value /\ probe.offsetHeight > 52
        THEN probe.height = probe.offsetHeight
        ELSE probe.height = probe.prevHeight

\* C38 (as claimed): every update of the TextArea completes without an
\* error, with autogrow on or off and after autogrow was switched off; with
\* autogrow on, a change of the value sets the height of the textarea to
\* that of the ghost element exactly when that is above 52 pixels.
C38_UpdateCompletes ==
    probe.op = "update" => (~probe.threw /\ GrowsAbove52)

\* the updates that complete do to the height what is claimed
C38_CompletedUpdateGrows ==
    (probe.op = "update" /\ ~probe.threw) => GrowsAbove52

\* an update without autogrow has thrown, with no ghost element ever
\* rendered
C38_UpdateThrows ==
    /\ probe.op = "update" /\ probe.threw
    /\ ~probe.autogrow /\ probe.ghost = "undefined"

\* an update has thrown after autogrow was switched off
C38_SwitchedOffThrows ==
    /\ probe.op = "update" /\ probe.threw
    /\ ~probe.autogrow /\ probe.ghost = "null"

\* an update with autogrow on has grown the textarea
C38_Grown ==
    /\ probe.op = "update" /\ ~probe.threw /\ probe.autogrow
    /\ probe.height = 53 /\ probe.prevHeight = 80

====
